---- MODULE Spec2Model ----
(***************************************************************************)
(* A model of the proof-of-work node: the blockchain store, the mempool,   *)
(* the miner and its worker, the transaction generator and its worker,     *)
(* and the HTTP handlers that read the chain and the per-block state.      *)
(*                                                                         *)
(* Hashing.  SHA-256 over the bincode serialisation is modelled as a       *)
(* collision-free symbolic digest: the hash of a value is a tagged tuple   *)
(* of what was hashed, so two hashes are equal iff their inputs are.  The  *)
(* position of a header hash in the big-endian order of H256 is taken to   *)
(* be decided by the nonce (HashValue), which is what the proof-of-work    *)
(* test reads.  The header's timestamp only feeds the hash; it is folded   *)
(* into the nonce draw.                                                    *)
(***************************************************************************)
EXTENDS Integers, Sequences, FiniteSets, TLC

VARIABLES
    blockchain,             \* Blockchain {block_map, tip, height}
    block_state_map,        \* BlockState.block_state_map
    mempool,                \* Mempool {transaction_map, transaction_set}
    mutex,                  \* holder of each Arc<Mutex<_>>, or "free"
    poisoned,               \* mutexes whose holder panicked
    miner,                  \* miner::Context: operating_state and loop position
    miner_control_chan,     \* miner::Handle.control_chan -> Context.control_chan
    finished_block_chan,    \* miner -> miner worker
    miner_worker,           \* miner::worker::Worker loop position
    generator,              \* transaction_generator::Context
    generator_control_chan, \* transaction_generator::Handle.control_chan
    finished_tx_chan,       \* generator -> generator worker
    generator_worker,       \* transaction_generator::worker::Worker
    api,                    \* the HTTP handler thread and what made one abort
    address_to_use,         \* p2p port % 10 (main.rs)
    broadcast,              \* messages handed to server.broadcast, per sender
    published,              \* history: blocks sent on finished_block_chan
    emitted,                \* history: transactions sent on finished_tx_chan
    inserted,               \* history: block hashes in order of first insertion
    last_call               \* history: the last store/mempool call and its pre-state

vars == <<blockchain, block_state_map, mempool, mutex, poisoned, miner,
          miner_control_chan, finished_block_chan, miner_worker, generator,
          generator_control_chan, finished_tx_chan, generator_worker, api,
          address_to_use, broadcast, published, emitted, inserted, last_call>>

-----------------------------------------------------------------------------
(* Bounds of the model *)

\* rng.gen::<u32>() draws a nonce from 0..MaxNonce
MaxNonce == 2
\* Blockchain.insert calls made by the store's test driver
MaxInserts == 4
\* Mempool.insert / Mempool.remove calls made by the mempool's driver
MaxMempoolCalls == 4
\* blocks the miner may publish
MaxBlocks == 2
\* transactions the generator may emit
MaxTxs == 2
\* rng.gen_range(1..val) draws a value from 1..min(val - 1, MaxDraw)
MaxDraw == 1
\* the p2p port's last digit ranges over 0..MaxPort
MaxPort == 0
\* /miner/start and /tx-generator/start requests served
MaxSignals == 2
\* the lambda and theta parameters range over 0..MaxStart
MaxStart == 0
\* /blockchain/state requests served
MaxRequests == 1

-----------------------------------------------------------------------------
(* Hashes, addresses, signatures *)

\* H256::from([0; 32]): the genesis parent and the empty Merkle root
ZeroHash == <<>>

\* blockchain::DIFFICULTY, as a position in the order HashValue induces
DIFFICULTY == 1

\* Address::from_public_key_bytes: the tail of SHA-256 of the key bytes
AddressFromPublicKey(public_key) == <<"addr", public_key>>

\* key_pair::given(&[k; 32]).public_key()
PublicKey(k) == <<"pk", k>>

\* transaction::sign: Ed25519 over the serialised Transaction
Sign(t, k) == [msg |-> t, key |-> k]

\* a verify that does not look at the message
Verify_IgnoresMessage(t, public_key, signature) ==
    /\ signature.key \in Nat
    /\ PublicKey(signature.key) = public_key

\* transaction::verify: UnparsedPublicKey::verify(..).is_ok(), true only
\* for bytes that some key pair (key \in Nat) produced as the signature of
\* this message and for the public key of that pair
Verify(t, public_key, signature) ==
    /\ signature.key \in Nat
    /\ signature.msg = t
    /\ PublicKey(signature.key) = public_key

\* Hashable for SignedTransaction: SHA-256 of the whole serialised triple
HashTx(st) ==
    <<"tx", st.transaction.sender, st.transaction.account_nonce,
      st.transaction.receiver, st.transaction.value,
      st.signature, st.public_key>>

\* SHA-256(left || right), the Merkle parent hash
HashPair(left, right) == <<"node", left, right>>

\* Hashable for Header (and Block): SHA-256 of the serialised header
HashHeader(h) == <<"hdr", h.parent, h.nonce, h.difficulty, h.merkle_root>>

HashBlock(b) == HashHeader(b.header)

\* the place of a header hash in the big-endian order of H256
HashValue(b) == b.header.nonce

-----------------------------------------------------------------------------
(* Merkle tree (types/merkle.rs) *)

\* a reduction that hashes each pair right-hand side first
RECURSIVE reduce_layer_Swapped(_)
reduce_layer_Swapped(old_layer) ==
    IF Len(old_layer) < 2 THEN <<>>
    ELSE <<HashPair(old_layer[2], old_layer[1])>>
         \o reduce_layer_Swapped(SubSeq(old_layer, 3, Len(old_layer)))

\* reduce_layer: hash each adjacent pair of an even-sized layer
RECURSIVE reduce_layer(_)
reduce_layer(old_layer) ==
    IF Len(old_layer) < 2 THEN <<>>
    ELSE <<HashPair(old_layer[1], old_layer[2])>>
         \o reduce_layer(SubSeq(old_layer, 3, Len(old_layer)))

\* the padding step: duplicate the last element of an odd layer
PadLayer(layer, isRootAllowed) ==
    IF Len(layer) % 2 = 1 /\ ~(isRootAllowed /\ Len(layer) = 1)
    THEN Append(layer, layer[Len(layer)])
    ELSE layer

\* the loop of MerkleTree::new: reduce, pad, append, until one node is left
RECURSIVE MerkleLayers(_, _)
MerkleLayers(old_layer, nodes) ==
    LET new_layer == reduce_layer(old_layer)
        padded == PadLayer(new_layer, TRUE)
    IN IF Len(new_layer) = 1 THEN nodes \o padded
       ELSE MerkleLayers(padded, nodes \o padded)

\* MerkleTree::new(data).nodes: the flat node array
MerkleNodes(data) ==
    IF Len(data) = 0 THEN <<>>
    ELSE LET leaves == PadLayer([i \in 1..Len(data) |-> HashTx(data[i])], FALSE)
         IN MerkleLayers(leaves, leaves)

\* MerkleTree::root
MerkleRoot(data) ==
    LET nodes == MerkleNodes(data)
    IN IF Len(nodes) = 0 THEN ZeroHash ELSE nodes[Len(nodes)]

\* the inner loop of build_tree_map: connect the pairs of one layer to
\* their parents; it never ends once current_node has passed the layer end
RECURSIVE TreeMapLayer(_, _, _, _, _)
TreeMapLayer(map, current_node, current_parent, running_node_amount, nodes_in_layer) ==
    IF current_node = running_node_amount
    THEN [diverges |-> FALSE, map |-> map, current_node |-> current_node,
          current_parent |-> current_parent]
    ELSE IF current_node > running_node_amount
    THEN [diverges |-> TRUE, map |-> map, current_node |-> current_node,
          current_parent |-> current_parent]
    ELSE LET next_node == current_node + 2
             skip == IF next_node = running_node_amount
                        /\ (nodes_in_layer \div 2) % 2 = 1
                     THEN 1 ELSE 0
         IN TreeMapLayer((current_node :> current_parent)
                            @@ ((current_node + 1) :> current_parent) @@ map,
                         next_node, current_parent + 1 + skip,
                         running_node_amount, nodes_in_layer)

\* the outer loop of build_tree_map: while nodes_in_layer != 1; with
\* nodes_in_layer = 0 an iteration changes nothing and the loop never ends
RECURSIVE TreeMapLoop(_, _, _, _, _)
TreeMapLoop(map, running_node_amount, nodes_in_layer, current_parent, current_node) ==
    IF nodes_in_layer = 1
    THEN [diverges |-> FALSE, map |-> map,
          root_index |-> running_node_amount - 1]
    ELSE LET layer == TreeMapLayer(map, current_node, current_parent,
                                   running_node_amount, nodes_in_layer)
             halved == nodes_in_layer \div 2
             next_layer == IF halved % 2 = 1 /\ halved # 1
                           THEN halved + 1 ELSE halved
         IN IF layer.diverges \/ nodes_in_layer = 0
            THEN [diverges |-> TRUE, map |-> map, root_index |-> 0]
            ELSE TreeMapLoop(layer.map, running_node_amount + next_layer,
                             next_layer, layer.current_parent,
                             layer.current_node)

\* build_tree_map(leaf_size): child index -> parent index, and the root index
build_tree_map(leaf_size) ==
    TreeMapLoop(<<>>, leaf_size, leaf_size, leaf_size, 0)

\* MerkleTree::new(data)
MerkleTreeNew(data) ==
    IF Len(data) = 0
    THEN [nodes |-> <<>>, node_amount |-> 0, tree_map |-> <<>>,
          root_index |-> 0, leaf_nodes |-> 0]
    ELSE LET nodes == MerkleNodes(data)
             leaf_size == Len(data) + (Len(data) % 2)
             tuple == build_tree_map(leaf_size)
         IN [nodes |-> nodes, node_amount |-> Len(nodes),
             tree_map |-> tuple.map, root_index |-> tuple.root_index,
             leaf_nodes |-> Len(data)]

\* a proof step that emits the node itself
Sibling_Self(tree, key) == tree.nodes[key + 1]

\* the node paired with nodes[key]: nodes[key+1] for an even key,
\* nodes[key-1] for an odd one (keys count from 0)
Sibling(tree, key) ==
    IF key % 2 = 0 THEN tree.nodes[(key + 1) + 1] ELSE tree.nodes[(key - 1) + 1]

\* the while loop of MerkleTree::proof
RECURSIVE ProofWalk(_, _, _)
ProofWalk(tree, new_key, proof_vector) ==
    IF new_key = tree.root_index THEN proof_vector
    ELSE ProofWalk(tree, tree.tree_map[new_key],
                   Append(proof_vector, Sibling(tree, new_key)))

\* MerkleTree::proof(index)
proof(tree, index) ==
    IF index >= tree.leaf_nodes THEN <<>>
    ELSE ProofWalk(tree, tree.tree_map[index], <<Sibling(tree, index)>>)

Returns(value) == [outcome |-> "returns", value |-> value]
Diverges == [outcome |-> "diverges", value |-> FALSE]
Panics == [outcome |-> "panics", value |-> FALSE]

\* a loop that concatenates the two hashes the other way round
RECURSIVE VerifyLoop_Swapped(_, _, _, _, _, _, _)
VerifyLoop_Swapped(root, hash_tree, proof_, i, index_, hashed, sibling_hash) ==
    IF i > Len(proof_) THEN Returns(sibling_hash = root)
    ELSE IF index_ \notin DOMAIN hash_tree THEN Panics
    ELSE LET parent_hash == IF index_ % 2 = 0
                            THEN HashPair(proof_[i], hashed)
                            ELSE HashPair(hashed, proof_[i])
         IN VerifyLoop_Swapped(root, hash_tree, proof_, i + 1,
                               hash_tree[index_], parent_hash, parent_hash)

\* the while loop of verify; hash_tree.get(&index_).unwrap() panics on an
\* index without a parent
RECURSIVE VerifyLoop(_, _, _, _, _, _, _)
VerifyLoop(root, hash_tree, proof_, i, index_, hashed, sibling_hash) ==
    IF i > Len(proof_) THEN Returns(sibling_hash = root)
    ELSE IF index_ \notin DOMAIN hash_tree THEN Panics
    ELSE LET parent_hash == IF index_ % 2 = 0
                            THEN HashPair(hashed, proof_[i])
                            ELSE HashPair(proof_[i], hashed)
         IN VerifyLoop(root, hash_tree, proof_, i + 1, hash_tree[index_],
                       parent_hash, parent_hash)

\* a verify that accepts every datum at an index in range
verify_AcceptsInRange(root, datum, proof_, index, leaf_size) ==
    LET tuple == build_tree_map(leaf_size + (leaf_size % 2))
    IN IF tuple.diverges THEN Diverges
       ELSE Returns(index < leaf_size)

\* verify(root, datum, proof, index, leaf_size): the tree map is built
\* before the index is tested
verify(root, datum, proof_, index, leaf_size) ==
    LET tuple == build_tree_map(leaf_size + (leaf_size % 2))
    IN IF tuple.diverges THEN Diverges
       ELSE IF index >= leaf_size THEN Returns(FALSE)
       ELSE VerifyLoop(root, tuple.map, proof_, 1, index, datum, datum)

-----------------------------------------------------------------------------
(* Blocks and the blockchain store (blockchain/mod.rs) *)

Header(parent, nonce, difficulty, merkle_root) ==
    [parent |-> parent, nonce |-> nonce, difficulty |-> difficulty,
     merkle_root |-> merkle_root]

Block(header, data) == [header |-> header, content |-> data]

\* Block::get_parent
get_parent(b) == b.header.parent

\* the genesis block built by Blockchain::new
GenesisBlock == Block(Header(ZeroHash, 0, DIFFICULTY, MerkleRoot(<<>>)), <<>>)

GenesisHash == HashBlock(GenesisBlock)

\* Blockchain::new
BlockchainNew ==
    [block_map |-> (GenesisHash :> [block |-> GenesisBlock, height |-> 0]),
     tip |-> GenesisHash,
     height |-> 0]

\* whether Blockchain::insert unwraps a missing parent
InsertPanics(bc, block) == get_parent(block) \notin DOMAIN bc.block_map

\* Insert with a fork taking over without the height being updated
Insert_StaleHeight(bc, block) ==
    LET new_block_hash == HashBlock(block)
        onTip == get_parent(block) = bc.tip
        new_block_height ==
            IF onTip THEN bc.height + 1
            ELSE bc.block_map[get_parent(block)].height + 1
        moves == onTip \/ new_block_height > bc.height
    IN [block_map |-> (new_block_hash :>
                          [block |-> block, height |-> new_block_height])
                      @@ bc.block_map,
        tip |-> IF moves THEN new_block_hash ELSE bc.tip,
        height |-> IF onTip THEN new_block_height ELSE bc.height]

\* Insert with the tie going to the newcomer (>= for >)
Insert_TieMoves(bc, block) ==
    LET new_block_hash == HashBlock(block)
        onTip == get_parent(block) = bc.tip
        new_block_height ==
            IF onTip THEN bc.height + 1
            ELSE bc.block_map[get_parent(block)].height + 1
        moves == onTip \/ new_block_height >= bc.height
    IN [block_map |-> (new_block_hash :>
                          [block |-> block, height |-> new_block_height])
                      @@ bc.block_map,
        tip |-> IF moves THEN new_block_hash ELSE bc.tip,
        height |-> IF moves THEN new_block_height ELSE bc.height]

\* Insert that never lets a fork take over
Insert_NoReorg(bc, block) ==
    LET new_block_hash == HashBlock(block)
        onTip == get_parent(block) = bc.tip
        new_block_height ==
            IF onTip THEN bc.height + 1
            ELSE bc.block_map[get_parent(block)].height + 1
    IN [block_map |-> (new_block_hash :>
                          [block |-> block, height |-> new_block_height])
                      @@ bc.block_map,
        tip |-> IF onTip THEN new_block_hash ELSE bc.tip,
        height |-> IF onTip THEN new_block_height ELSE bc.height]

\* Insert that stores a forking block one above the current height
Insert_ForkHeightFromTip(bc, block) ==
    LET new_block_hash == HashBlock(block)
        onTip == get_parent(block) = bc.tip
        new_block_height == bc.height + 1
        moves == onTip \/ new_block_height > bc.height
    IN [block_map |-> (new_block_hash :>
                          [block |-> block, height |-> new_block_height])
                      @@ bc.block_map,
        tip |-> IF moves THEN new_block_hash ELSE bc.tip,
        height |-> IF moves THEN new_block_height ELSE bc.height]

\* Insert with the tip moving to every inserted block
Insert_AlwaysMoves(bc, block) ==
    LET new_block_hash == HashBlock(block)
        new_block_parent_hash == get_parent(block)
        new_block_height ==
            IF new_block_parent_hash = bc.tip THEN bc.height + 1
            ELSE bc.block_map[new_block_parent_hash].height + 1
    IN [block_map |-> (new_block_hash :>
                          [block |-> block, height |-> new_block_height])
                      @@ bc.block_map,
        tip |-> new_block_hash,
        height |-> new_block_height]

\* Blockchain::insert, for a block whose parent is stored
Insert(bc, block) ==
    LET new_block_hash == HashBlock(block)
        new_block_parent_hash == get_parent(block)
        new_block_parent_height == bc.block_map[new_block_parent_hash].height
        onTip == new_block_parent_hash = bc.tip
        new_block_height ==
            IF onTip THEN bc.height + 1 ELSE new_block_parent_height + 1
        moves == onTip \/ new_block_height > bc.height
    IN [block_map |-> (new_block_hash :>
                          [block |-> block, height |-> new_block_height])
                      @@ bc.block_map,
        tip |-> IF moves THEN new_block_hash ELSE bc.tip,
        height |-> IF moves THEN new_block_height ELSE bc.height]

\* an insert that moves the tip before it looks the parent up
InsertOutcome_TipFirst(bc, block) ==
    IF InsertPanics(bc, block)
    THEN [outcome |-> "panics", bc |-> [bc EXCEPT !.tip = HashBlock(block)]]
    ELSE [outcome |-> "returns", bc |-> Insert(bc, block)]

\* Blockchain::insert on any block: the unwrap of line 65 panics before
\* the first assignment, otherwise the call returns with the store updated
InsertOutcome(bc, block) ==
    IF InsertPanics(bc, block)
    THEN [outcome |-> "panics", bc |-> bc]
    ELSE [outcome |-> "returns", bc |-> Insert(bc, block)]

\* Blockchain::tip
Tip(bc) == bc.tip

\* the while loop of all_blocks_in_longest_chain: push parents until zero
RECURSIVE WalkParents(_, _, _)
WalkParents(bc, parent_hash, chain) ==
    IF parent_hash = ZeroHash THEN chain
    ELSE WalkParents(bc, get_parent(bc.block_map[parent_hash].block),
                     Append(chain, parent_hash))

\* Vec::reverse
Reverse(s) == [i \in 1..Len(s) |-> s[Len(s) + 1 - i]]

\* a walk that returns the chain as pushed, tip first
all_blocks_in_longest_chain_TipFirst(bc) ==
    WalkParents(bc, get_parent(bc.block_map[bc.tip].block), <<bc.tip>>)

\* Blockchain::all_blocks_in_longest_chain
all_blocks_in_longest_chain(bc) ==
    Reverse(WalkParents(bc, get_parent(bc.block_map[bc.tip].block), <<bc.tip>>))

\* the history of first insertions, extended by one insert
RecordInserted(bc, block) ==
    IF HashBlock(block) \in DOMAIN bc.block_map THEN inserted
    ELSE Append(inserted, HashBlock(block))

-----------------------------------------------------------------------------
(* Transactions and the mempool (miner/mod.rs) *)

Transaction(sender, account_nonce, receiver, value) ==
    [sender |-> sender, account_nonce |-> account_nonce,
     receiver |-> receiver, value |-> value]

SignedTransaction(t, signature, public_key) ==
    [transaction |-> t, signature |-> signature, public_key |-> public_key]

\* a payment signed the way the generator signs it (key pair k)
SignedBy(k, account_nonce, receiver, value) ==
    LET t == Transaction(AddressFromPublicKey(PublicKey(k)), account_nonce,
                         receiver, value)
    IN SignedTransaction(t, Sign(t, k), PublicKey(k))

\* Mempool::new
MempoolNew == [transaction_map |-> <<>>, transaction_set |-> {}]

\* Mempool::insert that looks the hash up in the map, not in the set
MempoolInsert_ChecksMap(mp, st) ==
    IF HashTx(st) \in DOMAIN mp.transaction_map THEN mp
    ELSE [transaction_map |-> (HashTx(st) :> st) @@ mp.transaction_map,
          transaction_set |-> mp.transaction_set \cup {HashTx(st)}]

\* an insert that records nothing in transaction_set
MempoolInsert_MapOnly(mp, st) ==
    IF HashTx(st) \in mp.transaction_set THEN mp
    ELSE [mp EXCEPT !.transaction_map = (HashTx(st) :> st) @@ mp.transaction_map]

\* Mempool::insert
MempoolInsert(mp, st) ==
    IF HashTx(st) \in mp.transaction_set THEN mp
    ELSE [transaction_map |-> (HashTx(st) :> st) @@ mp.transaction_map,
          transaction_set |-> mp.transaction_set \cup {HashTx(st)}]

\* a remove that leaves transaction_map as it is
MempoolRemove_KeepsMap(mp, transaction_hash) == mp

\* Mempool::remove
MempoolRemove(mp, transaction_hash) ==
    IF transaction_hash \in DOMAIN mp.transaction_map
    THEN [mp EXCEPT !.transaction_map =
              [h \in DOMAIN mp.transaction_map \ {transaction_hash}
                  |-> mp.transaction_map[h]]]
    ELSE mp

-----------------------------------------------------------------------------
(* Initial state: main.rs after construction *)

\* let balance = 1000000
ICOBalance == 1000000

\* an offering that also funds the second demo key
ICOState_FundsTwoKeys ==
    (AddressFromPublicKey(PublicKey(0)) :> <<0, ICOBalance>>)
       @@ (AddressFromPublicKey(PublicKey(1)) :> <<0, ICOBalance>>)

\* ICO::new(&key0).state: one account, nonce 0, balance 1,000,000
ICOState == (AddressFromPublicKey(PublicKey(0)) :> <<0, ICOBalance>>)

Paused == [kind |-> "Paused", lambda |-> 0]
Run(i) == [kind |-> "Run", lambda |-> i]
ShutDown == [kind |-> "ShutDown", lambda |-> 0]

NoBlock == <<>>
NoTx == <<>>
NoCall == [op |-> "none", n |-> 0, inserted_before |-> {}, removed_before |-> {}]

\* main after construction, for a node whose p2p port ends in one of `ports`
InitNode(ports) ==
    /\ blockchain = BlockchainNew
    /\ block_state_map = (GenesisHash :> ICOState)
    /\ mempool = MempoolNew
    /\ mutex = [blockchain |-> "free", block_state |-> "free", mempool |-> "free"]
    /\ poisoned = {}
    /\ miner = [operating_state |-> Paused, pc |-> "control",
                parent_ |-> ZeroHash, snapshot |-> <<>>, block |-> NoBlock]
    /\ miner_control_chan = <<>>
    /\ finished_block_chan = <<>>
    /\ miner_worker = [pc |-> "recv", block |-> NoBlock]
    /\ generator = [operating_state |-> Paused, pc |-> "control",
                    tip |-> ZeroHash, receiver_index |-> 0, panic |-> "none"]
    /\ generator_control_chan = <<>>
    /\ finished_tx_chan = <<>>
    /\ generator_worker = [pc |-> "recv", tx |-> NoTx]
    /\ api = [pc |-> "idle", longest_chain |-> <<>>, panic |-> "none",
              starts |-> 0, reads |-> 0]
    /\ address_to_use \in ports
    /\ broadcast = [blocks |-> <<>>, transactions |-> <<>>]
    /\ published = <<>>
    /\ emitted = <<>>
    /\ inserted = <<GenesisHash>>
    /\ last_call = NoCall

Init == InitNode(0..MaxPort)

-----------------------------------------------------------------------------
(* Mutexes and control signals *)

Start(i) == [kind |-> "Start", lambda |-> i]
Update == [kind |-> "Update", lambda |-> 0]
Exit == [kind |-> "Exit", lambda |-> 0]
Unimplemented == [kind |-> "Unimplemented", lambda |-> 0]

\* Mutex::lock().unwrap() succeeds: the mutex is free and not poisoned
CanLock(m) == mutex[m] = "free" /\ m \notin poisoned

\* Mutex::lock().unwrap() panics: the mutex is free but poisoned
LockPanics(m) == mutex[m] = "free" /\ m \in poisoned

\* the mutexes whose guard thread t holds
Held(t) == {m \in DOMAIN mutex : mutex[m] = t}

\* a match in which Update starts a paused loop
OnSignal_UpdateStarts(st, signal) ==
    CASE signal.kind = "Exit" -> ShutDown
      [] signal.kind = "Start" -> Run(signal.lambda)
      [] OTHER -> IF st.kind = "Paused" THEN Run(0) ELSE Unimplemented

\* a match in which Exit pauses the loop
OnSignal_ExitPauses(st, signal) ==
    CASE signal.kind = "Exit" -> Paused
      [] signal.kind = "Start" -> Run(signal.lambda)
      [] OTHER -> IF st.kind = "Paused" THEN st ELSE Unimplemented

\* the receiving half of the match on a control signal (both loops):
\* the operating state after `signal` is handled in state `st`, or
\* Unimplemented where the code reaches unimplemented!()
OnSignal(st, signal) ==
    CASE signal.kind = "Exit" -> ShutDown
      [] signal.kind = "Start" -> Run(signal.lambda)
      [] OTHER -> IF st.kind = "Paused" THEN st ELSE Unimplemented

-----------------------------------------------------------------------------
(* The miner (miner/mod.rs, Context::miner_loop) *)

\* let block_limit = 4000
block_limit == 4000

\* bincode::serialize(&tx).len(): 20 + 4 + 20 + 4 bytes of Transaction,
\* 8 + 64 of the signature vector, 8 + 32 of the public key vector
SerializedLen(st) == 160

\* the orders in which a HashMap with these keys may be iterated
IterationOrders(keys) ==
    {order \in [1..Cardinality(keys) -> keys] :
        \A i, j \in 1..Cardinality(keys) : order[i] = order[j] => i = j}

\* a selection loop that stops as soon as the budget would be reached
RECURSIVE SelectTransactions_StopsAtLimit(_, _, _, _, _)
SelectTransactions_StopsAtLimit(snapshot, order, i, current_size, transactions) ==
    IF i > Len(order) THEN transactions
    ELSE LET tx == snapshot[order[i]]
         IN IF current_size + SerializedLen(tx) >= block_limit
            THEN transactions
            ELSE SelectTransactions_StopsAtLimit(
                     snapshot, order, i + 1,
                     current_size + SerializedLen(tx),
                     Append(transactions, tx))

\* the for loop over the cloned transaction_map: push until the next
\* transaction would exceed block_limit, then break
RECURSIVE SelectTransactions(_, _, _, _, _)
SelectTransactions(snapshot, order, i, current_size, transactions) ==
    IF i > Len(order) THEN transactions
    ELSE LET tx == snapshot[order[i]]
         IN IF current_size + SerializedLen(tx) > block_limit THEN transactions
            ELSE SelectTransactions(snapshot, order, i + 1,
                                    current_size + SerializedLen(tx),
                                    Append(transactions, tx))

\* a test that does not count equality as solved
Solved_Strict(block) == HashValue(block) < DIFFICULTY

\* block.hash() <= difficulty_
Solved(block) == HashValue(block) <= DIFFICULTY

\* the removal loop that removes nothing
RemoveIncluded_Skips(mp, data, i) == mp

\* for tx in block.content.data.clone() { mempool.remove(&tx.hash()) }
RECURSIVE RemoveIncluded(_, _, _)
RemoveIncluded(mp, data, i) ==
    IF i > Len(data) THEN mp
    ELSE RemoveIncluded(MempoolRemove(mp, HashTx(data[i])), data, i + 1)

minerIdle == [parent_ |-> ZeroHash, snapshot |-> <<>>, block |-> NoBlock]

\* lines 139-183: react to a control signal
MinerControl ==
    /\ miner.pc = "control"
    /\ CASE miner.operating_state.kind = "ShutDown" ->
               /\ miner' = [miner EXCEPT !.pc = "done"]
               /\ UNCHANGED miner_control_chan
         [] miner.operating_state.kind = "Paused" ->
               /\ miner_control_chan # <<>>
               /\ miner' = [miner EXCEPT !.operating_state =
                               OnSignal(miner.operating_state,
                                        Head(miner_control_chan))]
               /\ miner_control_chan' = Tail(miner_control_chan)
         [] OTHER ->
               IF miner_control_chan = <<>>
               THEN /\ miner' = [miner EXCEPT !.pc = "tip"]
                    /\ UNCHANGED miner_control_chan
               ELSE LET next == OnSignal(miner.operating_state,
                                         Head(miner_control_chan))
                    IN /\ miner_control_chan' = Tail(miner_control_chan)
                       /\ miner' =
                            IF next.kind = "Unimplemented"
                            THEN [miner EXCEPT !.pc = "panicked"]
                            ELSE IF next.kind = "ShutDown"
                            THEN [miner EXCEPT !.operating_state = next,
                                               !.pc = "done"]
                            ELSE [miner EXCEPT !.operating_state = next,
                                               !.pc = "tip"]
    /\ UNCHANGED <<blockchain, block_state_map, mempool, mutex, poisoned,
                   finished_block_chan, miner_worker, generator,
                   generator_control_chan, finished_tx_chan, generator_worker,
                   api, address_to_use, broadcast, published, emitted,
                   inserted, last_call>>

\* line 185: let parent_ = self.blockchain.lock().unwrap().tip()
MinerReadTip ==
    /\ miner.pc = "tip"
    /\ mutex.blockchain = "free"
    /\ miner' = IF LockPanics("blockchain")
                THEN [miner EXCEPT !.pc = "panicked"]
                ELSE [miner EXCEPT !.parent_ = Tip(blockchain),
                                   !.pc = "lock_mempool"]
    /\ UNCHANGED <<blockchain, block_state_map, mempool, mutex, poisoned,
                   miner_control_chan, finished_block_chan, miner_worker,
                   generator, generator_control_chan, finished_tx_chan,
                   generator_worker, api, address_to_use, broadcast,
                   published, emitted, inserted, last_call>>

\* line 193: let mut mempool = self.mempool.lock().unwrap()
MinerLockMempool ==
    /\ miner.pc = "lock_mempool"
    /\ mutex.mempool = "free"
    /\ IF LockPanics("mempool")
       THEN /\ miner' = [miner EXCEPT !.pc = "panicked"]
            /\ UNCHANGED mutex
       ELSE /\ miner' = [miner EXCEPT !.pc = "select"]
            /\ mutex' = [mutex EXCEPT !.mempool = "miner"]
    /\ UNCHANGED <<blockchain, block_state_map, mempool, poisoned,
                   miner_control_chan, finished_block_chan, miner_worker,
                   generator, generator_control_chan, finished_tx_chan,
                   generator_worker, api, address_to_use, broadcast,
                   published, emitted, inserted, last_call>>

\* a candidate whose header commits to the empty list
MinerAssemble_EmptyRoot ==
    /\ miner.pc = "select"
    /\ \E order \in IterationOrders(DOMAIN mempool.transaction_map),
          nonce_ \in 0..MaxNonce :
          LET transactions ==
                  SelectTransactions(mempool.transaction_map, order, 1, 0, <<>>)
              block == Block(Header(miner.parent_, nonce_, DIFFICULTY,
                                    MerkleRoot(<<>>)),
                             transactions)
          IN /\ Solved(block) => Len(published) < MaxBlocks
             /\ miner' = [miner EXCEPT
                            !.snapshot = mempool.transaction_map,
                            !.block = block,
                            !.pc = IF Solved(block) THEN "remove" ELSE "sleep"]
    /\ UNCHANGED <<blockchain, block_state_map, mempool, mutex, poisoned,
                   miner_control_chan, finished_block_chan, miner_worker,
                   generator, generator_control_chan, finished_tx_chan,
                   generator_worker, api, address_to_use, broadcast,
                   published, emitted, inserted, last_call>>

\* lines 194-224: select from the cloned map, build the block, test it
MinerAssemble ==
    /\ miner.pc = "select"
    /\ \E order \in IterationOrders(DOMAIN mempool.transaction_map),
          nonce_ \in 0..MaxNonce :
          LET transactions ==
                  SelectTransactions(mempool.transaction_map, order, 1, 0, <<>>)
              block == Block(Header(miner.parent_, nonce_, DIFFICULTY,
                                    MerkleRoot(transactions)),
                             transactions)
          IN /\ Solved(block) => Len(published) < MaxBlocks
             /\ miner' = [miner EXCEPT
                            !.snapshot = mempool.transaction_map,
                            !.block = block,
                            !.pc = IF Solved(block) THEN "remove" ELSE "sleep"]
    /\ UNCHANGED <<blockchain, block_state_map, mempool, mutex, poisoned,
                   miner_control_chan, finished_block_chan, miner_worker,
                   generator, generator_control_chan, finished_tx_chan,
                   generator_worker, api, address_to_use, broadcast,
                   published, emitted, inserted, last_call>>

\* lines 226-228: remove the block's transactions from the mempool
MinerRemove ==
    /\ miner.pc = "remove"
    /\ mempool' = RemoveIncluded(mempool, miner.block.content, 1)
    /\ miner' = [miner EXCEPT !.pc = "send"]
    /\ UNCHANGED <<blockchain, block_state_map, mutex, poisoned,
                   miner_control_chan, finished_block_chan, miner_worker,
                   generator, generator_control_chan, finished_tx_chan,
                   generator_worker, api, address_to_use, broadcast,
                   published, emitted, inserted, last_call>>

\* line 229: self.finished_block_chan.send(block.clone()).expect(..)
MinerSend ==
    /\ miner.pc = "send"
    /\ IF miner_worker.pc = "panicked"
       THEN /\ miner' = [miner EXCEPT !.pc = "panicked"]
            /\ mutex' = [mutex EXCEPT !.mempool = "free"]
            /\ poisoned' = poisoned \cup {"mempool"}
            /\ UNCHANGED <<finished_block_chan, published>>
       ELSE /\ finished_block_chan' = Append(finished_block_chan, miner.block)
            /\ published' = Append(published, miner.block)
            /\ miner' = [miner EXCEPT !.pc = "sleep"]
            /\ UNCHANGED <<mutex, poisoned>>
    /\ UNCHANGED <<blockchain, block_state_map, mempool, miner_control_chan,
                   miner_worker, generator, generator_control_chan,
                   finished_tx_chan, generator_worker, api, address_to_use,
                   broadcast, emitted, inserted, last_call>>

\* the end of an iteration with the mempool guard outliving it
MinerEndIteration_KeepsGuard ==
    /\ miner.pc = "sleep"
    /\ miner' = [operating_state |-> miner.operating_state, pc |-> "control"]
                   @@ minerIdle
    /\ UNCHANGED <<blockchain, block_state_map, mempool, mutex, poisoned,
                   miner_control_chan, finished_block_chan, miner_worker,
                   generator, generator_control_chan, finished_tx_chan,
                   generator_worker, api, address_to_use, broadcast,
                   published, emitted, inserted, last_call>>

\* lines 232-238: sleep lambda microseconds, then the iteration's scope
\* ends and the mempool guard is dropped
MinerEndIteration ==
    /\ miner.pc = "sleep"
    /\ miner' = [operating_state |-> miner.operating_state, pc |-> "control"]
                   @@ minerIdle
    /\ mutex' = [mutex EXCEPT !.mempool = "free"]
    /\ UNCHANGED <<blockchain, block_state_map, mempool, poisoned,
                   miner_control_chan, finished_block_chan, miner_worker,
                   generator, generator_control_chan, finished_tx_chan,
                   generator_worker, api, address_to_use, broadcast,
                   published, emitted, inserted, last_call>>

-----------------------------------------------------------------------------
(* The miner worker (miner/worker.rs, Worker::worker_loop) *)

NewBlockHashes(hashes) == [kind |-> "NewBlockHashes", hashes |-> hashes]
NewTransactionHashes(hashes) ==
    [kind |-> "NewTransactionHashes", hashes |-> hashes]

\* line 43: self.finished_block_chan.recv()
MinerWorkerRecv ==
    /\ miner_worker.pc = "recv"
    /\ finished_block_chan # <<>>
    /\ miner_worker' = [pc |-> "lock", block |-> Head(finished_block_chan)]
    /\ finished_block_chan' = Tail(finished_block_chan)
    /\ UNCHANGED <<blockchain, block_state_map, mempool, mutex, poisoned,
                   miner, miner_control_chan, generator,
                   generator_control_chan, finished_tx_chan, generator_worker,
                   api, address_to_use, broadcast, published, emitted,
                   inserted, last_call>>

\* a worker that locks the blockchain and goes on without inserting
MinerWorkerInsert_Skips ==
    /\ miner_worker.pc = "lock"
    /\ mutex.blockchain = "free"
    /\ mutex' = [mutex EXCEPT !.blockchain = "miner_worker"]
    /\ miner_worker' = [miner_worker EXCEPT !.pc = "broadcast"]
    /\ UNCHANGED <<blockchain, inserted, poisoned, block_state_map, mempool,
                   miner, miner_control_chan, finished_block_chan, generator,
                   generator_control_chan, finished_tx_chan, generator_worker,
                   api, address_to_use, broadcast, published, emitted,
                   last_call>>

\* lines 44-45: lock the blockchain and insert the block
MinerWorkerInsert ==
    /\ miner_worker.pc = "lock"
    /\ mutex.blockchain = "free"
    /\ IF LockPanics("blockchain")
       THEN /\ miner_worker' = [miner_worker EXCEPT !.pc = "panicked"]
            /\ UNCHANGED <<blockchain, inserted, mutex, poisoned>>
       ELSE IF InsertPanics(blockchain, miner_worker.block)
       THEN /\ miner_worker' = [miner_worker EXCEPT !.pc = "panicked"]
            /\ poisoned' = poisoned \cup {"blockchain"}
            /\ UNCHANGED <<blockchain, inserted, mutex>>
       ELSE /\ blockchain' = Insert(blockchain, miner_worker.block)
            /\ inserted' = RecordInserted(blockchain, miner_worker.block)
            /\ mutex' = [mutex EXCEPT !.blockchain = "miner_worker"]
            /\ miner_worker' = [miner_worker EXCEPT !.pc = "broadcast"]
            /\ UNCHANGED poisoned
    /\ UNCHANGED <<block_state_map, mempool, miner, miner_control_chan,
                   finished_block_chan, generator, generator_control_chan,
                   finished_tx_chan, generator_worker, api, address_to_use,
                   broadcast, published, emitted, last_call>>

\* lines 46-50: broadcast the hash; the guard is dropped as the
\* iteration ends
MinerWorkerBroadcast ==
    /\ miner_worker.pc = "broadcast"
    /\ broadcast' = [broadcast EXCEPT !.blocks =
                        Append(@, NewBlockHashes(<<HashBlock(miner_worker.block)>>))]
    /\ mutex' = [mutex EXCEPT !.blockchain = "free"]
    /\ miner_worker' = [pc |-> "recv", block |-> NoBlock]
    /\ UNCHANGED <<blockchain, block_state_map, mempool, poisoned, miner,
                   miner_control_chan, finished_block_chan, generator,
                   generator_control_chan, finished_tx_chan, generator_worker,
                   api, address_to_use, published, emitted, inserted,
                   last_call>>

-----------------------------------------------------------------------------
(* The transaction generator (transaction_generator/mod.rs) *)

\* main.rs 114-125: the key pair the node adopts
ChosenKey == IF address_to_use \in {1, 2} THEN address_to_use ELSE 0

Account(k) == AddressFromPublicKey(PublicKey(k))

\* main.rs 116-125: receiver_addresses
ReceiverAddresses ==
    IF address_to_use = 1 THEN <<Account(0), Account(2)>>
    ELSE IF address_to_use = 2 THEN <<Account(0), Account(1)>>
    ELSE <<Account(1), Account(2)>>

\* tip_state.get(&self.address), (0, 0) when absent
SenderEntry(tip_state, address) ==
    IF address \in DOMAIN tip_state THEN tip_state[address] ELSE <<0, 0>>

\* a limit that is the whole balance
DrawLimit_Whole(balance) == balance

\* let mut val = sender_balance.1 / 2; if val == 0 { val = 1; }
DrawLimit(balance) == IF balance \div 2 = 0 THEN 1 ELSE balance \div 2

\* the values rng.gen_range(1..val) may return, cut at MaxDraw
Draws(val) == {v \in 1..MaxDraw : v < val}

\* lines 106-149: react to a control signal
GeneratorControl ==
    /\ generator.pc = "control"
    /\ CASE generator.operating_state.kind = "ShutDown" ->
               /\ generator' = [generator EXCEPT !.pc = "done"]
               /\ UNCHANGED generator_control_chan
         [] generator.operating_state.kind = "Paused" ->
               /\ generator_control_chan # <<>>
               /\ generator' = [generator EXCEPT !.operating_state =
                                   OnSignal(generator.operating_state,
                                            Head(generator_control_chan))]
               /\ generator_control_chan' = Tail(generator_control_chan)
         [] OTHER ->
               IF generator_control_chan = <<>>
               THEN /\ generator' = [generator EXCEPT !.pc = "tip"]
                    /\ UNCHANGED generator_control_chan
               ELSE LET next == OnSignal(generator.operating_state,
                                         Head(generator_control_chan))
                    IN /\ generator_control_chan' = Tail(generator_control_chan)
                       /\ generator' =
                            IF next.kind = "Unimplemented"
                            THEN [generator EXCEPT !.pc = "panicked",
                                                   !.panic = "unimplemented"]
                            ELSE IF next.kind = "ShutDown"
                            THEN [generator EXCEPT !.operating_state = next,
                                                   !.pc = "done"]
                            ELSE [generator EXCEPT !.operating_state = next,
                                                   !.pc = "tip"]
    /\ UNCHANGED <<blockchain, block_state_map, mempool, mutex, poisoned,
                   miner, miner_control_chan, finished_block_chan,
                   miner_worker, finished_tx_chan, generator_worker, api,
                   address_to_use, broadcast, published, emitted, inserted,
                   last_call>>

\* line 152: let tip = self.blockchain.lock().unwrap().tip().clone()
GeneratorReadTip ==
    /\ generator.pc = "tip"
    /\ mutex.blockchain = "free"
    /\ generator' = IF LockPanics("blockchain")
                    THEN [generator EXCEPT !.pc = "panicked",
                                           !.panic = "poisoned"]
                    ELSE [generator EXCEPT !.tip = Tip(blockchain),
                                           !.pc = "state"]
    /\ UNCHANGED <<blockchain, block_state_map, mempool, mutex, poisoned,
                   miner, miner_control_chan, finished_block_chan,
                   miner_worker, generator_control_chan, finished_tx_chan,
                   generator_worker, api, address_to_use, broadcast,
                   published, emitted, inserted, last_call>>

\* lines 153-195: look the tip's snapshot up, draft, sign and send one
\* transaction, flip the receiver, sleep
GeneratorDraftUpTo(limit) ==
    /\ generator.pc = "state"
    /\ mutex.block_state = "free"
    /\ IF LockPanics("block_state")
       THEN /\ generator' = [generator EXCEPT !.pc = "panicked",
                                              !.panic = "poisoned"]
            /\ UNCHANGED <<poisoned, finished_tx_chan, emitted>>
       ELSE IF generator.tip \notin DOMAIN block_state_map
       THEN /\ generator' = [generator EXCEPT !.pc = "panicked",
                                              !.panic = "no_state"]
            /\ poisoned' = poisoned \cup {"block_state"}
            /\ UNCHANGED <<finished_tx_chan, emitted>>
       ELSE LET tip_state == block_state_map[generator.tip]
                sender_balance == SenderEntry(tip_state, Account(ChosenKey))
                val == DrawLimit(sender_balance[2])
                receiver == ReceiverAddresses[generator.receiver_index + 1]
            IN IF sender_balance[2] = 0
               THEN /\ generator' = [generator EXCEPT !.pc = "control"]
                    /\ UNCHANGED <<poisoned, finished_tx_chan, emitted>>
               ELSE IF val <= 1
               THEN /\ generator' = [generator EXCEPT !.pc = "panicked",
                                                      !.panic = "empty_range"]
                    /\ UNCHANGED <<poisoned, finished_tx_chan, emitted>>
               ELSE /\ Len(emitted) < limit
                    /\ \E value \in Draws(val) :
                          LET signed_tx ==
                                 SignedBy(ChosenKey, sender_balance[1] + 1,
                                          receiver, value)
                          IN /\ finished_tx_chan' =
                                    Append(finished_tx_chan, signed_tx)
                             /\ emitted' = Append(emitted, signed_tx)
                    /\ generator' =
                          [generator EXCEPT
                              !.receiver_index = 1 - generator.receiver_index,
                              !.pc = "control"]
                    /\ UNCHANGED poisoned
    /\ UNCHANGED <<blockchain, block_state_map, mempool, mutex, miner,
                   miner_control_chan, finished_block_chan, miner_worker,
                   generator_control_chan, generator_worker, api,
                   address_to_use, broadcast, published, inserted, last_call>>

\* the loop body, for the MaxTxs transactions a run emits
GeneratorDraft == GeneratorDraftUpTo(MaxTxs)

-----------------------------------------------------------------------------
(* The generator worker (transaction_generator/worker.rs) *)

\* line 44: self.finished_tx_chan.recv()
GeneratorWorkerRecv ==
    /\ generator_worker.pc = "recv"
    /\ finished_tx_chan # <<>>
    /\ generator_worker' = [pc |-> "lock", tx |-> Head(finished_tx_chan)]
    /\ finished_tx_chan' = Tail(finished_tx_chan)
    /\ UNCHANGED <<blockchain, block_state_map, mempool, mutex, poisoned,
                   miner, miner_control_chan, finished_block_chan,
                   miner_worker, generator, generator_control_chan, api,
                   address_to_use, broadcast, published, emitted, inserted,
                   last_call>>

\* lines 45-46: lock the mempool and insert the transaction
GeneratorWorkerInsert ==
    /\ generator_worker.pc = "lock"
    /\ mutex.mempool = "free"
    /\ IF LockPanics("mempool")
       THEN /\ generator_worker' = [generator_worker EXCEPT !.pc = "panicked"]
            /\ UNCHANGED <<mempool, mutex>>
       ELSE /\ mempool' = MempoolInsert(mempool, generator_worker.tx)
            /\ mutex' = [mutex EXCEPT !.mempool = "generator_worker"]
            /\ generator_worker' = [generator_worker EXCEPT !.pc = "broadcast"]
    /\ UNCHANGED <<blockchain, block_state_map, poisoned, miner,
                   miner_control_chan, finished_block_chan, miner_worker,
                   generator, generator_control_chan, finished_tx_chan, api,
                   address_to_use, broadcast, published, emitted, inserted,
                   last_call>>

\* lines 48-51: broadcast the hash; the guard is dropped as the
\* iteration ends
GeneratorWorkerBroadcast ==
    /\ generator_worker.pc = "broadcast"
    /\ broadcast' = [broadcast EXCEPT !.transactions =
                        Append(@, NewTransactionHashes(
                                      <<HashTx(generator_worker.tx)>>))]
    /\ mutex' = [mutex EXCEPT !.mempool = "free"]
    /\ generator_worker' = [pc |-> "recv", tx |-> NoTx]
    /\ UNCHANGED <<blockchain, block_state_map, mempool, poisoned, miner,
                   miner_control_chan, finished_block_chan, miner_worker,
                   generator, generator_control_chan, finished_tx_chan, api,
                   address_to_use, published, emitted, inserted, last_call>>

-----------------------------------------------------------------------------
(* The HTTP handlers (api/mod.rs) *)

\* the lambda and theta values requests carry
StartValues == 0..MaxStart

\* "/miner/start": miner.start(lambda)
ApiMinerStartWith(values) ==
    /\ api.pc = "idle"
    /\ api.starts < MaxSignals
    /\ \E lambda \in values :
          miner_control_chan' = Append(miner_control_chan, Start(lambda))
    /\ api' = [api EXCEPT !.starts = api.starts + 1]
    /\ UNCHANGED <<blockchain, block_state_map, mempool, mutex, poisoned,
                   miner, finished_block_chan, miner_worker, generator,
                   generator_control_chan, finished_tx_chan, generator_worker,
                   address_to_use, broadcast, published, emitted, inserted,
                   last_call>>

ApiMinerStart == ApiMinerStartWith(StartValues)

\* "/tx-generator/start": tx_generator.start(5000 * theta)
ApiGeneratorStart ==
    /\ api.pc = "idle"
    /\ api.starts < MaxSignals
    /\ \E theta \in StartValues :
          generator_control_chan' =
              Append(generator_control_chan, Start(5000 * theta))
    /\ api' = [api EXCEPT !.starts = api.starts + 1]
    /\ UNCHANGED <<blockchain, block_state_map, mempool, mutex, poisoned,
                   miner, miner_control_chan, finished_block_chan,
                   miner_worker, generator, finished_tx_chan,
                   generator_worker, address_to_use, broadcast, published,
                   emitted, inserted, last_call>>

\* "/blockchain/state", line 198: read the longest chain under the
\* blockchain mutex
ApiStateChain ==
    /\ api.pc = "idle"
    /\ api.reads < MaxRequests
    /\ mutex.blockchain = "free"
    /\ api' = IF LockPanics("blockchain")
              THEN [api EXCEPT !.panic = "poisoned", !.reads = api.reads + 1]
              ELSE [api EXCEPT !.pc = "state_lookup",
                               !.longest_chain =
                                   all_blocks_in_longest_chain(blockchain)]
    /\ UNCHANGED <<blockchain, block_state_map, mempool, mutex, poisoned,
                   miner, miner_control_chan, finished_block_chan,
                   miner_worker, generator, generator_control_chan,
                   finished_tx_chan, generator_worker, address_to_use,
                   broadcast, published, emitted, inserted, last_call>>

\* "/blockchain/state", lines 199-209: index the chain with the
\* request's block parameter, look the snapshot up under the block_state
\* mutex, respond
ApiStateLookup ==
    /\ api.pc = "state_lookup"
    /\ \E block \in 0..(MaxBlocks + 1) :
       LET done(panic) ==
               [pc |-> "idle", longest_chain |-> <<>>, panic |-> panic,
                starts |-> api.starts, reads |-> api.reads + 1]
       IN IF block >= Len(api.longest_chain)
          THEN /\ api' = done("index")
               /\ UNCHANGED poisoned
          ELSE /\ mutex.block_state = "free"
               /\ IF LockPanics("block_state")
                  THEN /\ api' = done("poisoned")
                       /\ UNCHANGED poisoned
                  ELSE IF api.longest_chain[block + 1]
                             \notin DOMAIN block_state_map
                  THEN /\ api' = done("no_state")
                       /\ poisoned' = poisoned \cup {"block_state"}
                  ELSE /\ api' = done(api.panic)
                       /\ UNCHANGED poisoned
    /\ UNCHANGED <<blockchain, block_state_map, mempool, mutex, miner,
                   miner_control_chan, finished_block_chan, miner_worker,
                   generator, generator_control_chan, finished_tx_chan,
                   generator_worker, address_to_use, broadcast, published,
                   emitted, inserted, last_call>>

-----------------------------------------------------------------------------
(* The node: every thread of main.rs, interleaved *)

Next ==
    \/ MinerControl
    \/ MinerReadTip
    \/ MinerLockMempool
    \/ MinerAssemble
    \/ MinerRemove
    \/ MinerSend
    \/ MinerEndIteration
    \/ MinerWorkerRecv
    \/ MinerWorkerInsert
    \/ MinerWorkerBroadcast
    \/ GeneratorControl
    \/ GeneratorReadTip
    \/ GeneratorDraft
    \/ GeneratorWorkerRecv
    \/ GeneratorWorkerInsert
    \/ GeneratorWorkerBroadcast
    \/ ApiMinerStart
    \/ ApiGeneratorStart
    \/ ApiStateChain
    \/ ApiStateLookup

Spec == Init /\ [][Next]_vars

-----------------------------------------------------------------------------
(* The blockchain store driven as its tests drive it (SpecChain) *)

\* a parent hash no stored block has
UnknownParent == HashPair(ZeroHash, ZeroHash)

\* types::block::generate_random_block(parent): random nonce, empty content
generate_random_block(parent, nonce) ==
    Block(Header(parent, nonce, DIFFICULTY, MerkleRoot(<<>>)), <<>>)

\* one call blockchain.insert(&block)
InsertCall ==
    /\ last_call.n < MaxInserts
    /\ last_call.op # "panic"
    /\ \E parent \in DOMAIN blockchain.block_map \cup {UnknownParent},
          nonce \in 0..MaxNonce :
          LET block == generate_random_block(parent, nonce)
              result == InsertOutcome(blockchain, block)
          IN IF result.outcome = "panics"
             THEN /\ last_call' = [op |-> "panic", n |-> last_call.n + 1,
                                   block |-> block, pre |-> blockchain,
                                   inserted_before |-> {}, removed_before |-> {}]
                  /\ blockchain' = result.bc
                  /\ UNCHANGED inserted
             ELSE /\ blockchain' = result.bc
                  /\ inserted' = RecordInserted(blockchain, block)
                  /\ last_call' = [op |-> "insert", n |-> last_call.n + 1,
                                   block |-> block, pre |-> blockchain,
                                   inserted_before |-> {}, removed_before |-> {}]
    /\ UNCHANGED <<block_state_map, mempool, mutex, poisoned, miner,
                   miner_control_chan, finished_block_chan, miner_worker,
                   generator, generator_control_chan, finished_tx_chan,
                   generator_worker, api, address_to_use, broadcast,
                   published, emitted>>

InitChain == Init /\ address_to_use = 0

NextChain == InsertCall

SpecChain == InitChain /\ [][NextChain]_vars

-----------------------------------------------------------------------------
(* Properties of the store *)

StoredHeight(bc, h) == bc.block_map[h].height
StoredParent(bc, h) == get_parent(bc.block_map[h].block)

\* position of a hash in the history of first insertions
InsertedAt(h) == CHOOSE i \in 1..Len(inserted) : inserted[i] = h

\* the path genesis..h along parent links
RECURSIVE PathFromGenesis(_, _)
PathFromGenesis(bc, h) ==
    IF h = ZeroHash THEN <<>>
    ELSE Append(PathFromGenesis(bc, StoredParent(bc, h)), h)

\* C3: after any sequence of inserts with known parents, the longest chain
\* starts at genesis, ends at tip, has height + 1 elements, and every
\* consecutive pair is parent -> child.
C3_LongestChainShape ==
    LET chain == all_blocks_in_longest_chain(blockchain)
    IN /\ chain[1] = GenesisHash
       /\ chain[Len(chain)] = Tip(blockchain)
       /\ Len(chain) = blockchain.height + 1
       /\ \A i \in 1..(Len(chain) - 1) :
              StoredParent(blockchain, chain[i + 1]) = chain[i]

\* a fork exists and the longest chain has at least three blocks
C3_Witness ==
    /\ last_call.op = "insert"
    /\ Len(all_blocks_in_longest_chain(blockchain)) >= 3
    /\ Cardinality(DOMAIN blockchain.block_map)
          > Len(all_blocks_in_longest_chain(blockchain))

\* C4: tip is a block of maximal stored height, the first inserted among
\* those; an insert of a block no higher than the current height changes
\* neither tip nor height.
C4_TipIsFirstHighest ==
    /\ \A h \in DOMAIN blockchain.block_map :
          /\ StoredHeight(blockchain, h) <= StoredHeight(blockchain, blockchain.tip)
          /\ StoredHeight(blockchain, h) = StoredHeight(blockchain, blockchain.tip)
                => InsertedAt(blockchain.tip) <= InsertedAt(h)
    /\ (/\ last_call.op = "insert"
        /\ StoredHeight(last_call.pre, get_parent(last_call.block)) + 1
              <= last_call.pre.height)
          => /\ blockchain.tip = last_call.pre.tip
             /\ blockchain.height = last_call.pre.height

\* a second block reached the tip's height and the tip stayed
C4_Witness ==
    /\ last_call.op = "insert"
    /\ HashBlock(last_call.block) # blockchain.tip
    /\ HashBlock(last_call.block) \notin DOMAIN last_call.pre.block_map
    /\ StoredHeight(blockchain, HashBlock(last_call.block)) = blockchain.height
    /\ blockchain.height >= 2

\* C5: an insert of a block strictly higher than the current height makes
\* it the tip, also when it extends a fork, and the longest chain is then
\* the path from genesis through that fork to the new tip.
C5_HigherBlockBecomesTip ==
    (/\ last_call.op = "insert"
     /\ StoredHeight(last_call.pre, get_parent(last_call.block)) + 1
           > last_call.pre.height)
       => /\ blockchain.tip = HashBlock(last_call.block)
          /\ blockchain.height
                = StoredHeight(last_call.pre, get_parent(last_call.block)) + 1
          /\ all_blocks_in_longest_chain(blockchain)
                = Append(PathFromGenesis(last_call.pre, get_parent(last_call.block)),
                         HashBlock(last_call.block))

\* the inserted block extended a fork, not the tip, and took over
C5_Witness ==
    /\ last_call.op = "insert"
    /\ get_parent(last_call.block) # last_call.pre.tip
    /\ blockchain.tip = HashBlock(last_call.block)
    /\ blockchain.tip # last_call.pre.tip

\* C6: genesis is stored at height 0 with the zero parent; every other
\* block's parent is stored, one lower; height is the tip's stored height.
C6_HeightBookkeeping ==
    /\ GenesisHash \in DOMAIN blockchain.block_map
    /\ StoredHeight(blockchain, GenesisHash) = 0
    /\ StoredParent(blockchain, GenesisHash) = ZeroHash
    /\ \A h \in DOMAIN blockchain.block_map \ {GenesisHash} :
          /\ StoredParent(blockchain, h) \in DOMAIN blockchain.block_map
          /\ StoredHeight(blockchain, h)
                = StoredHeight(blockchain, StoredParent(blockchain, h)) + 1
    /\ blockchain.tip \in DOMAIN blockchain.block_map
    /\ blockchain.height = StoredHeight(blockchain, blockchain.tip)

\* a block of height 2 lies off the longest chain
C6_Witness ==
    /\ last_call.op = "insert"
    /\ \E h \in DOMAIN blockchain.block_map :
          /\ StoredHeight(blockchain, h) = 2
          /\ \A i \in 1..Len(all_blocks_in_longest_chain(blockchain)) :
                all_blocks_in_longest_chain(blockchain)[i] # h

-----------------------------------------------------------------------------
(* The mempool driven by arbitrary insert and remove calls (SpecMempool) *)

\* the signed transactions the driver passes
DriverTxs ==
    {SignedBy(0, n, AddressFromPublicKey(PublicKey(r)), v) :
        n \in 1..2, r \in 1..2, v \in 1..MaxDraw}

\* the hashes passed to insert, and to remove, before and by the last call
InsertedEver ==
    last_call.inserted_before
       \cup (IF last_call.op = "mp_insert" THEN {HashTx(last_call.tx)} ELSE {})
RemovedEver ==
    last_call.removed_before
       \cup (IF last_call.op = "mp_remove" THEN {last_call.hash} ELSE {})

\* one call mempool.insert(&t)
MempoolInsertCall ==
    /\ last_call.n < MaxMempoolCalls
    /\ \E st \in DriverTxs :
          /\ mempool' = MempoolInsert(mempool, st)
          /\ last_call' = [op |-> "mp_insert", n |-> last_call.n + 1,
                           tx |-> st, pre |-> mempool,
                           inserted_before |-> InsertedEver,
                           removed_before |-> RemovedEver]
    /\ UNCHANGED <<blockchain, block_state_map, mutex, poisoned, miner,
                   miner_control_chan, finished_block_chan, miner_worker,
                   generator, generator_control_chan, finished_tx_chan,
                   generator_worker, api, address_to_use, broadcast,
                   published, emitted, inserted>>

\* one call mempool.remove(&hash)
MempoolRemoveCall ==
    /\ last_call.n < MaxMempoolCalls
    /\ \E st \in DriverTxs :
          /\ mempool' = MempoolRemove(mempool, HashTx(st))
          /\ last_call' = [op |-> "mp_remove", n |-> last_call.n + 1,
                           hash |-> HashTx(st), pre |-> mempool,
                           inserted_before |-> InsertedEver,
                           removed_before |-> RemovedEver]
    /\ UNCHANGED <<blockchain, block_state_map, mutex, poisoned, miner,
                   miner_control_chan, finished_block_chan, miner_worker,
                   generator, generator_control_chan, finished_tx_chan,
                   generator_worker, api, address_to_use, broadcast,
                   published, emitted, inserted>>

NextMempool == MempoolInsertCall \/ MempoolRemoveCall

SpecMempool == InitChain /\ [][NextMempool]_vars

\* C8: once insert(t) has run, a later insert(t) changes neither the map
\* nor the set, also after remove(t.hash); a removed transaction never
\* re-enters the map.
C8_InsertOnceOnly ==
    /\ (/\ last_call.op = "mp_insert"
        /\ HashTx(last_call.tx) \in last_call.inserted_before)
          => mempool = last_call.pre
    /\ \A h \in RemovedEver \cap last_call.inserted_before :
          (h \in DOMAIN mempool.transaction_map)
             => h \in DOMAIN last_call.pre.transaction_map

\* insert(t) called again after insert(t) and remove(t.hash)
C8_Witness ==
    /\ last_call.op = "mp_insert"
    /\ HashTx(last_call.tx) \in last_call.inserted_before
    /\ HashTx(last_call.tx) \in last_call.removed_before
    /\ HashTx(last_call.tx) \notin DOMAIN mempool.transaction_map

-----------------------------------------------------------------------------
(* The account-state rules a block is checked against (section 4.5) *)

\* the checks one signed transaction must pass against a snapshot
TransactionPasses(state, st) ==
    LET t == st.transaction
        entry == SenderEntry(state, t.sender)
    IN /\ Verify(t, st.public_key, st.signature)
       /\ AddressFromPublicKey(st.public_key) = t.sender
       /\ t.account_nonce = entry[1] + 1
       /\ t.value >= 1
       /\ t.value <= entry[2]

\* an update that debits the sender and credits nobody
ApplyTransaction_NoCredit(state, st) ==
    LET t == st.transaction
        entry == SenderEntry(state, t.sender)
    IN (t.sender :> <<entry[1] + 1, entry[2] - t.value>>) @@ state

\* the snapshot after one transaction is applied
ApplyTransaction(state, st) ==
    LET t == st.transaction
        entry == SenderEntry(state, t.sender)
        debited == (t.sender :> <<entry[1] + 1, entry[2] - t.value>>) @@ state
        credit == SenderEntry(debited, t.receiver)
    IN (t.receiver :> <<credit[1], credit[2] + t.value>>) @@ debited

\* apply a block's transactions in order; valid is FALSE once one fails
RECURSIVE ApplyBlock(_, _, _)
ApplyBlock(state, data, i) ==
    IF i > Len(data) THEN [valid |-> TRUE, state |-> state]
    ELSE IF ~TransactionPasses(state, data[i])
    THEN [valid |-> FALSE, state |-> state]
    ELSE ApplyBlock(ApplyTransaction(state, data[i]), data, i + 1)

\* the snapshot section 4.5 yields for a stored block, from genesis down
RECURSIVE DerivedState(_, _)
DerivedState(bc, h) ==
    IF h = GenesisHash THEN [valid |-> TRUE, state |-> ICOState]
    ELSE LET parent == DerivedState(bc, StoredParent(bc, h))
         IN IF ~parent.valid THEN parent
            ELSE ApplyBlock(parent.state, bc.block_map[h].block.content, 1)

-----------------------------------------------------------------------------
(* Properties of the node *)

Threads == {"miner", "miner_worker", "generator", "generator_worker", "api"}

\* thread t is at a lock() call on mutex m
Requests(t, m) ==
    CASE t = "miner" -> \/ miner.pc = "tip" /\ m = "blockchain"
                        \/ miner.pc = "lock_mempool" /\ m = "mempool"
      [] t = "miner_worker" -> miner_worker.pc = "lock" /\ m = "blockchain"
      [] t = "generator" -> \/ generator.pc = "tip" /\ m = "blockchain"
                            \/ generator.pc = "state" /\ m = "block_state"
      [] t = "generator_worker" ->
            generator_worker.pc = "lock" /\ m = "mempool"
      [] OTHER -> \/ api.pc = "idle" /\ m = "blockchain"
                  \/ api.pc = "state_lookup" /\ m = "block_state"

\* t is blocked on a mutex that u holds
WaitsFor(t, u) == \E m \in DOMAIN mutex : Requests(t, m) /\ mutex[m] = u

\* the threads reachable from S along WaitsFor in at most n steps
RECURSIVE WaitClosure(_, _)
WaitClosure(S, n) ==
    IF n = 0 THEN S
    ELSE WaitClosure(S \cup {u \in Threads : \E t \in S : WaitsFor(t, u)}, n - 1)

\* C1: every block in block_map has a snapshot, and no reader that took
\* the tip or a longest-chain hash failed to find its snapshot.
C1_BlockHasSnapshot ==
    /\ DOMAIN blockchain.block_map \subseteq DOMAIN block_state_map
    /\ generator.panic # "no_state"
    /\ api.panic # "no_state"

\* C2: after Start(0) with an empty mempool, each published block's
\* parent is the hash of the block published just before it.
C2_PublishedBlocksChain ==
    (miner.operating_state = Run(0) /\ emitted = <<>>)
       => \A i \in 1..(Len(published) - 1) :
             get_parent(published[i + 1]) = HashBlock(published[i])

\* C7: every non-genesis block in block_map passes the account-state
\* checks against its parent's snapshot, transaction by transaction.
C7_StoredBlocksPassStateChecks ==
    \A h \in DOMAIN blockchain.block_map : DerivedState(blockchain, h).valid

\* C9: selection, removal and send happen under one hold of the mempool
\* mutex with nothing inserted in between, and the transactions of every
\* published block are out of transaction_map and in transaction_set.
C9_RemovedBeforePublished ==
    /\ \A i \in 1..Len(published) :
          \A j \in 1..Len(published[i].content) :
             /\ HashTx(published[i].content[j]) \notin DOMAIN mempool.transaction_map
             /\ HashTx(published[i].content[j]) \in mempool.transaction_set
    /\ miner.pc \in {"select", "remove", "send"} => mutex.mempool = "miner"
    /\ miner.pc = "remove" => mempool.transaction_map = miner.snapshot
    /\ miner.pc = "send" =>
          /\ DOMAIN mempool.transaction_map \subseteq DOMAIN miner.snapshot
          /\ \A j \in 1..Len(miner.block.content) :
                HashTx(miner.block.content[j]) \notin DOMAIN mempool.transaction_map

\* a published block with a transaction has reached the chain while the
\* generator worker hands the mempool another transaction
C9_Witness ==
    /\ \E i \in 1..Len(published) :
          /\ Len(published[i].content) >= 1
          /\ HashBlock(published[i]) \in DOMAIN blockchain.block_map
    /\ generator_worker.pc = "broadcast"

\* C10: no thread asks for the blockchain or block_state mutex while it
\* holds the mempool mutex, none asks for the blockchain mutex while it
\* holds the block_state mutex, and no threads wait on each other's
\* mutexes in a cycle.
C10_LockOrder ==
    \A t \in Threads :
       /\ Requests(t, "blockchain") =>
             Held(t) \cap {"mempool", "block_state"} = {}
       /\ Requests(t, "block_state") => "mempool" \notin Held(t)
       /\ t \notin WaitClosure({u \in Threads : WaitsFor(t, u)},
                               Cardinality(Threads))

\* two threads are blocked at once, on different mutexes
C10_Witness ==
    /\ WaitsFor("generator_worker", "miner")
    /\ WaitsFor("generator", "miner_worker")

-----------------------------------------------------------------------------
(* The control handles (miner/mod.rs 108-123, transaction_generator/mod.rs
   74-89): exit, start and update called on a node whose loops run *)

\* calls made on the miner's control handle (the generator's handle gets
\* MaxSignals)
MaxSends == 3

\* the ports of the nodes the control handles are exercised on
ControlPorts == 0..1

\* the signals sent so far on the miner's and the generator's channel
MinerSent == IF last_call.op = "signal" THEN last_call.miner_sent ELSE <<>>
GeneratorSent ==
    IF last_call.op = "signal" THEN last_call.generator_sent ELSE <<>>

\* the signals a loop has taken off its channel
MinerReceived ==
    SubSeq(MinerSent, 1, Len(MinerSent) - Len(miner_control_chan))
GeneratorReceived ==
    SubSeq(GeneratorSent, 1, Len(GeneratorSent) - Len(generator_control_chan))

\* self.control_chan.send(signal).unwrap() on the handle of `target`; the
\* receiving end exists as long as the loop has not returned or panicked
SendControl(target, signal) ==
    /\ IF target = "miner"
       THEN /\ miner.pc \notin {"done", "panicked"}
            /\ Len(MinerSent) < MaxSends
            /\ miner_control_chan' = Append(miner_control_chan, signal)
            /\ last_call' = [op |-> "signal",
                             n |-> Len(MinerSent) + Len(GeneratorSent) + 1,
                             miner_sent |-> Append(MinerSent, signal),
                             generator_sent |-> GeneratorSent]
            /\ UNCHANGED generator_control_chan
       ELSE /\ generator.pc \notin {"done", "panicked"}
            /\ Len(GeneratorSent) < MaxSignals
            /\ generator_control_chan' = Append(generator_control_chan, signal)
            /\ last_call' = [op |-> "signal",
                             n |-> Len(MinerSent) + Len(GeneratorSent) + 1,
                             miner_sent |-> MinerSent,
                             generator_sent |-> Append(GeneratorSent, signal)]
            /\ UNCHANGED miner_control_chan
    /\ UNCHANGED <<blockchain, block_state_map, mempool, mutex, poisoned,
                   miner, finished_block_chan, miner_worker, generator,
                   finished_tx_chan, generator_worker, api, address_to_use,
                   broadcast, published, emitted, inserted>>

\* Handle::exit
HandleExit == \E target \in {"miner", "generator"} : SendControl(target, Exit)

\* Handle::start
HandleStart ==
    \E target \in {"miner", "generator"}, lambda \in StartValues :
       SendControl(target, Start(lambda))

\* Handle::update
HandleUpdate ==
    \E target \in {"miner", "generator"} : SendControl(target, Update)

MinerStep ==
    \/ MinerControl
    \/ MinerReadTip
    \/ MinerLockMempool
    \/ MinerAssemble
    \/ MinerRemove
    \/ MinerSend
    \/ MinerEndIteration

GeneratorStep == GeneratorControl \/ GeneratorReadTip \/ GeneratorDraft

GeneratorWorkerStep ==
    GeneratorWorkerRecv \/ GeneratorWorkerInsert \/ GeneratorWorkerBroadcast

InitControl == InitNode(ControlPorts)

NextControl ==
    \/ HandleExit
    \/ HandleStart
    \/ HandleUpdate
    \/ MinerControl
    \/ MinerReadTip
    \/ MinerLockMempool
    \/ MinerAssemble
    \/ MinerRemove
    \/ MinerSend
    \/ MinerEndIteration
    \/ GeneratorControl
    \/ GeneratorReadTip
    \/ GeneratorDraft
    \/ GeneratorWorkerRecv
    \/ GeneratorWorkerInsert
    \/ GeneratorWorkerBroadcast

SpecControl == InitControl /\ [][NextControl]_vars

\* the two loops alone with their handles: nobody else takes a mutex
NextLoops ==
    \/ HandleExit
    \/ HandleStart
    \/ HandleUpdate
    \/ MinerControl
    \/ MinerReadTip
    \/ MinerLockMempool
    \/ MinerAssemble
    \/ MinerRemove
    \/ MinerSend
    \/ MinerEndIteration
    \/ GeneratorControl
    \/ GeneratorReadTip
    \/ GeneratorDraft

\* each loop's thread keeps being scheduled
SpecLoopsFair ==
    /\ InitControl
    /\ [][NextLoops]_vars
    /\ WF_vars(MinerStep)
    /\ WF_vars(GeneratorStep)

-----------------------------------------------------------------------------
(* Properties of the control signals *)

\* a loop takes the signal at the head of its channel in this step
Takes(chan, kind) ==
    /\ chan # <<>>
    /\ chan' = Tail(chan)
    /\ Head(chan).kind = kind

HasKind(signals, kind) == \E i \in 1..Len(signals) : signals[i].kind = kind

\* C11: taking Update never aborts the miner loop or the generator loop:
\* the loop keeps its operating state and does not panic.
C11_UpdateNeverAborts ==
    [][/\ Takes(miner_control_chan, "Update") =>
             /\ miner'.operating_state = miner.operating_state
             /\ miner'.pc # "panicked"
       /\ Takes(generator_control_chan, "Update") =>
             /\ generator'.operating_state = generator.operating_state
             /\ generator'.pc # "panicked"]_vars

\* C12: once Exit is on a loop's control channel the loop reaches ShutDown
\* and returns (the generator within its first MaxTxs transactions), and
\* after Exit has been taken no block is published and no transaction is
\* emitted.
C12_ExitShutsDown ==
    /\ HasKind(miner_control_chan, "Exit") ~> miner.pc = "done"
    /\ HasKind(generator_control_chan, "Exit") ~>
          (generator.pc = "done" \/ Len(emitted) = MaxTxs)
    /\ [][/\ HasKind(MinerReceived, "Exit") => published' = published
          /\ HasKind(GeneratorReceived, "Exit") => emitted' = emitted]_vars

\* C13: the miner starts Paused; until it has taken a Start it publishes
\* nothing and removes nothing from the mempool; while Paused it changes
\* only by taking a signal: Start -> Run(lambda), Exit -> ShutDown,
\* Update -> Paused.
C13_PausedUntilStart ==
    /\ [](~HasKind(MinerReceived, "Start") =>
             /\ miner.operating_state.kind \in {"Paused", "ShutDown"}
             /\ MinerReceived = <<>> => miner.operating_state = Paused
             /\ published = <<>>
             /\ finished_block_chan = <<>>
             /\ mempool.transaction_set = DOMAIN mempool.transaction_map)
    /\ [][miner.operating_state = Paused =>
             /\ miner' # miner =>
                   /\ \/ Takes(miner_control_chan, "Start")
                      \/ Takes(miner_control_chan, "Exit")
                   /\ miner' = [miner EXCEPT !.operating_state =
                         IF Head(miner_control_chan).kind = "Start"
                         THEN Run(Head(miner_control_chan).lambda) ELSE ShutDown]
             /\ Takes(miner_control_chan, "Update") => miner' = miner]_vars

\* the miner is still Paused after taking an Update, with transactions
\* waiting in the mempool
C13_Witness ==
    /\ miner.operating_state = Paused
    /\ HasKind(MinerReceived, "Update")
    /\ DOMAIN mempool.transaction_map # {}

-----------------------------------------------------------------------------
(* The miner's transaction selection on mempool snapshots of any size *)

\* transactions in a snapshot
MaxSnapshot == 27

\* first account nonce of a snapshot's transactions
MaxOffset == 3

\* n signed transactions, in the order the snapshot is iterated
SnapshotTxs(n, first) ==
    [i \in 1..n |-> SignedBy(0, first + i, Account(1), 1)]

\* the transaction_map holding these transactions
SnapshotMap(txs) ==
    [h \in {HashTx(txs[i]) : i \in 1..Len(txs)} |->
        CHOOSE t \in {txs[i] : i \in 1..Len(txs)} : HashTx(t) = h]

RECURSIVE SerializedSum(_, _)
SerializedSum(txs, i) ==
    IF i > Len(txs) THEN 0 ELSE SerializedLen(txs[i]) + SerializedSum(txs, i + 1)

\* one run of the selection loop (miner_loop 193-205) on a snapshot
SelectCall ==
    /\ \E n \in 0..MaxSnapshot, first \in 0..MaxOffset :
          LET txs == SnapshotTxs(n, first)
              order == [i \in 1..n |-> HashTx(txs[i])]
          IN last_call' =
                [op |-> "select", n |-> n, iterated |-> txs,
                 transactions |->
                    SelectTransactions(SnapshotMap(txs), order, 1, 0, <<>>)]
    /\ UNCHANGED <<blockchain, block_state_map, mempool, mutex, poisoned,
                   miner, miner_control_chan, finished_block_chan,
                   miner_worker, generator, generator_control_chan,
                   finished_tx_chan, generator_worker, api, address_to_use,
                   broadcast, published, emitted, inserted>>

NextSelect == SelectCall

SpecSelect == InitChain /\ [][NextSelect]_vars

\* C14: the selected transactions total at most 4,000 serialized bytes and
\* are exactly the longest prefix of the iteration order that fits: the
\* next transaction in the order, if any, would exceed the budget.
C14_LongestPrefixInBudget ==
    last_call.op = "select" =>
       LET txs == last_call.iterated
           selected == last_call.transactions
       IN /\ SerializedSum(selected, 1) <= 4000
          /\ Len(selected) <= Len(txs)
          /\ selected = SubSeq(txs, 1, Len(selected))
          /\ Len(selected) < Len(txs) =>
                SerializedSum(SubSeq(txs, 1, Len(selected) + 1), 1) > 4000

\* a snapshot too large for one block: some but not all of it is selected
C14_Witness ==
    /\ last_call.op = "select"
    /\ Len(last_call.transactions) >= 1
    /\ Len(last_call.transactions) < Len(last_call.iterated)

-----------------------------------------------------------------------------
(* The proof-of-work test in the node *)

\* C15: the miner goes on to remove and publish the candidate exactly when
\* its hash is at most DIFFICULTY (equality included); every published
\* block has such a hash; a candidate with a greater hash is dropped with
\* the mempool as it was.
C15_PublishedIffSolved ==
    /\ [](/\ \A i \in 1..Len(published) : HashValue(published[i]) <= 1
          /\ miner.pc \in {"remove", "send"} => HashValue(miner.block) <= 1
          /\ (miner.pc = "sleep" /\ HashValue(miner.block) > 1) =>
                mempool.transaction_map = miner.snapshot)
    /\ [][/\ (miner.pc = "select" /\ miner'.pc # "select") =>
                /\ HashValue(miner'.block) <= 1 <=> miner'.pc = "remove"
                /\ HashValue(miner'.block) > 1 <=> miner'.pc = "sleep"
                /\ mempool' = mempool /\ published' = published
          /\ (miner.pc = "remove" /\ miner'.pc # "remove") => miner'.pc = "send"
          /\ (miner.pc = "send" /\ miner' # miner) =>
                /\ published' = Append(published, miner.block)
                /\ finished_block_chan' =
                      Append(finished_block_chan, miner.block)
          /\ published' # published =>
                miner.pc = "send" /\ HashValue(miner.block) <= 1]_vars

\* a block whose hash equals DIFFICULTY has been published, and a later
\* candidate with a greater hash is being dropped with transactions waiting
C15_Witness ==
    /\ \E i \in 1..Len(published) : HashValue(published[i]) = 1
    /\ miner.pc = "sleep"
    /\ HashValue(miner.block) > 1
    /\ DOMAIN mempool.transaction_map # {}

-----------------------------------------------------------------------------
(* The Merkle tree on leaf lists of every size up to MaxLeaves *)

\* leaves in a list
MaxLeaves == 8

\* the data items: signed transactions with account nonces 1..n
LeafItem(n) == SignedBy(0, n, Account(1), 1)

\* lists over two items (so equal leaves occur) and the lists of distinct
\* items
LeafLists ==
    UNION {[1..n -> {LeafItem(1), LeafItem(2)}] : n \in 0..MaxLeaves}
       \cup {[i \in 1..n |-> LeafItem(i)] : n \in 0..MaxLeaves}

\* hashes offered to verify as root, datum and proof entries
HashPool ==
    {ZeroHash, HashTx(LeafItem(1)),
     HashPair(HashTx(LeafItem(1)), HashTx(LeafItem(1)))}

ProofPool == UNION {[1..n -> HashPool] : n \in 0..2}

\* on a fresh tree: MerkleTree::new(data), then root(), proof(index) and
\* verify of that proof for the datum at index (the first datum when there
\* is none at index)
MerkleCall ==
    /\ last_call = NoCall
    /\ \E data \in LeafLists, index \in 0..(MaxLeaves + 1) :
          LET tree == MerkleTreeNew(data)
              root == MerkleRoot(data)
              datum == IF index < Len(data) THEN HashTx(data[index + 1])
                       ELSE IF Len(data) > 0 THEN HashTx(data[1])
                       ELSE ZeroHash
              proof_ == proof(tree, index)
          IN last_call' =
                [op |-> "merkle", n |-> Len(data), data |-> data,
                 index |-> index, tree |-> tree, root |-> root,
                 proof |-> proof_,
                 verified |-> verify(root, datum, proof_, index, Len(data))]
    /\ UNCHANGED <<blockchain, block_state_map, mempool, mutex, poisoned,
                   miner, miner_control_chan, finished_block_chan,
                   miner_worker, generator, generator_control_chan,
                   finished_tx_chan, generator_worker, api, address_to_use,
                   broadcast, published, emitted, inserted>>

\* verify called with any root, datum and proof
VerifyCall ==
    /\ last_call = NoCall
    /\ \E root \in HashPool, datum \in HashPool, proof_ \in ProofPool,
          index \in 0..(MaxLeaves + 1), leaf_size \in 0..MaxLeaves :
          last_call' =
             [op |-> "verify", n |-> leaf_size, root |-> root,
              datum |-> datum, proof |-> proof_, index |-> index,
              verified |-> verify(root, datum, proof_, index, leaf_size)]
    /\ UNCHANGED <<blockchain, block_state_map, mempool, mutex, poisoned,
                   miner, miner_control_chan, finished_block_chan,
                   miner_worker, generator, generator_control_chan,
                   finished_tx_chan, generator_worker, api, address_to_use,
                   broadcast, published, emitted, inserted>>

NextMerkle == MerkleCall \/ VerifyCall

SpecMerkle == InitChain /\ [][NextMerkle]_vars

-----------------------------------------------------------------------------
(* The reference construction of section 3 and the Merkle properties *)

LeafHashes(data) == [i \in 1..Len(data) |-> HashTx(data[i])]

\* duplicate the last element of a layer of odd size other than 1
RefPad(layer) ==
    IF Len(layer) % 2 = 1 /\ Len(layer) # 1
    THEN Append(layer, layer[Len(layer)]) ELSE layer

\* replace each adjacent pair (x, y) by H(x || y)
RefPairs(layer) ==
    [k \in 1..(Len(layer) \div 2) |-> HashPair(layer[2 * k - 1], layer[2 * k])]

\* the layers bottom-up, each as it is paired; the last one is <<root>>
RECURSIVE RefLayers(_)
RefLayers(layer) ==
    IF Len(layer) = 1 THEN <<layer>>
    ELSE <<RefPad(layer)>> \o RefLayers(RefPairs(RefPad(layer)))

RefRoot(data) ==
    LET layers == RefLayers(LeafHashes(data))
    IN layers[Len(layers)][1]

RECURSIVE Flatten(_)
Flatten(layers) ==
    IF layers = <<>> THEN <<>> ELSE Head(layers) \o Flatten(Tail(layers))

\* the sibling of leaf i's ancestor at every non-root layer, bottom-up
RefProof(data, i) ==
    LET layers == RefLayers(LeafHashes(data))
    IN [j \in 1..(Len(layers) - 1) |->
          LET ancestor == i \div (2 ^ (j - 1))
          IN layers[j][(IF ancestor % 2 = 0 THEN ancestor + 1
                        ELSE ancestor - 1) + 1]]

\* the index in the flat array of leaf i's ancestor j layers up, through
\* tree_map
RECURSIVE Ancestor(_, _, _)
Ancestor(tree, i, j) ==
    IF j = 0 THEN i ELSE tree.tree_map[Ancestor(tree, i, j - 1)]

\* C16: the proof of every leaf of every non-empty list verifies against
\* the root.
C16_ProofVerifies ==
    (last_call.op = "merkle" /\ last_call.n >= 1
        /\ last_call.index < last_call.n)
       => last_call.verified = Returns(TRUE)

\* a leaf list whose second layer needs padding, proved for its last leaf
C16_Witness ==
    /\ last_call.op = "merkle"
    /\ last_call.n = 6
    /\ last_call.index = 5
    /\ last_call.verified = Returns(TRUE)

\* C17: for an index at or past the leaf count, of any list including the
\* empty one, proof returns the empty list and verify returns false
\* whatever root, datum and proof it is given.
C17_OutOfRangeRejected ==
    /\ (last_call.op = "merkle" /\ last_call.index >= last_call.n) =>
          /\ last_call.proof = <<>>
          /\ last_call.verified = Returns(FALSE)
    /\ (last_call.op = "verify" /\ last_call.index >= last_call.n) =>
          last_call.verified = Returns(FALSE)

\* C18: for two or more leaves the root and the flat node array are those
\* of the reference construction, the empty list has the zero root, and
\* every node's parent index is greater than its own.
C18_RootIsReference ==
    last_call.op = "merkle" =>
       /\ last_call.n = 0 => last_call.root = ZeroHash
       /\ last_call.n >= 2 =>
             /\ last_call.root = RefRoot(last_call.data)
             /\ last_call.tree.nodes =
                   Flatten(RefLayers(LeafHashes(last_call.data)))
             /\ last_call.tree.nodes[last_call.tree.root_index + 1] =
                   last_call.root
       /\ \A k \in DOMAIN last_call.tree.tree_map :
             last_call.tree.tree_map[k] > k

\* five distinct leaves: the leaf layer and the layer above it are padded
C18_Witness ==
    /\ last_call.op = "merkle"
    /\ last_call.n = 5
    /\ last_call.data = [i \in 1..5 |-> LeafItem(i)]
    /\ Len(last_call.tree.nodes) = 13

\* C19: a single leaf is not padded and is its own root.
C19_SingleLeafIsRoot ==
    (last_call.op = "merkle" /\ last_call.n = 1) =>
       /\ last_call.root = HashTx(last_call.data[1])
       /\ Len(last_call.tree.nodes) = 1

\* C20: for two or more leaves the proof of leaf i has one entry per
\* non-root layer, bottom-up, the j-th being the sibling of leaf i's
\* ancestor at layer j, and tree_map leads from the leaf to those ancestors.
C20_ProofIsSiblingPath ==
    (last_call.op = "merkle" /\ last_call.n >= 2
        /\ last_call.index < last_call.n) =>
       LET layers == RefLayers(LeafHashes(last_call.data))
           i == last_call.index
       IN /\ Len(last_call.proof) = Len(layers) - 1
          /\ last_call.proof = RefProof(last_call.data, i)
          /\ \A j \in 0..(Len(layers) - 1) :
                Ancestor(last_call.tree, i, j) =
                   Len(Flatten(SubSeq(layers, 1, j))) + (i \div (2 ^ j))

\* the proof of the fifth of five distinct leaves, whose sibling is the
\* padding duplicate
C20_Witness ==
    /\ last_call.op = "merkle"
    /\ last_call.data = [i \in 1..5 |-> LeafItem(i)]
    /\ last_call.index = 4
    /\ Len(last_call.proof) = 3
    /\ last_call.proof[1] = HashTx(LeafItem(5))

-----------------------------------------------------------------------------
(* sign and verify on transactions, key pairs and byte strings of any kind *)

\* key pairs
MaxKeys == 2

\* values and account nonces of the signed transactions
MaxField == 2

SignInputs ==
    {Transaction(Account(s), n, Account(r), v) :
        s \in 0..1, r \in 0..1, n \in 1..MaxField, v \in 1..MaxField}

\* 64 bytes that no key pair produced as a signature of t
InvalidSignature(t) == [msg |-> t, key |-> -1]

\* bytes that are not an Ed25519 public key
UnparseablePublicKey == PublicKey(-1)

\* sign(t, k), then verify(t_, public_key, signature) on the signature or
\* on invalid bytes, with the public key of any pair or unparseable bytes
SignVerifyCall ==
    /\ last_call = NoCall
    /\ \E t \in SignInputs, t_ \in SignInputs, k \in 0..MaxKeys,
          k_ \in -1..MaxKeys, valid \in BOOLEAN :
          LET signature == IF valid THEN Sign(t, k) ELSE InvalidSignature(t)
          IN last_call' =
                [op |-> "verify_signature", n |-> 0, t |-> t, k |-> k,
                 t_ |-> t_, k_ |-> k_, valid |-> valid,
                 verified |-> Returns(Verify(t_, PublicKey(k_), signature))]
    /\ UNCHANGED <<blockchain, block_state_map, mempool, mutex, poisoned,
                   miner, miner_control_chan, finished_block_chan,
                   miner_worker, generator, generator_control_chan,
                   finished_tx_chan, generator_worker, api, address_to_use,
                   broadcast, published, emitted, inserted>>

NextSign == SignVerifyCall

SpecSign == InitChain /\ [][NextSign]_vars

-----------------------------------------------------------------------------
(* The state engine of section 4.5 accepting blocks (network/worker.rs) *)

\* blocks offered to the engine in one run
MaxOffered == 2

\* transactions in an offered block
MaxContent == 2

\* the value of the worked example of section 4.5
ExampleValue == 500

\* signed transfers between the three demo accounts
EngineTxs ==
    {SignedBy(k, n, Account(r), v) :
        k \in 0..1, n \in 1..2, r \in 0..2, v \in {1, ExampleValue}}

\* a block delivered to the worker: derive its state from the parent's
\* snapshot; on success insert it and record the snapshot, otherwise
\* reject it and record nothing
EngineAccept(pool, offered) ==
    /\ last_call.n < offered
    /\ \E parent \in DOMAIN block_state_map,
          data \in UNION {[1..n -> pool] : n \in 0..MaxContent} :
          LET block == Block(Header(parent, 0, DIFFICULTY, MerkleRoot(data)),
                             data)
              derived == ApplyBlock(block_state_map[parent], data, 1)
          IN /\ HashBlock(block) \notin DOMAIN blockchain.block_map
             /\ IF derived.valid
                THEN /\ blockchain' = Insert(blockchain, block)
                     /\ block_state_map' =
                           (HashBlock(block) :> derived.state) @@ block_state_map
                     /\ inserted' = RecordInserted(blockchain, block)
                     /\ last_call' = [op |-> "accept", n |-> last_call.n + 1,
                                      block |-> block,
                                      before |-> block_state_map]
                ELSE /\ last_call' = [op |-> "reject", n |-> last_call.n + 1,
                                      block |-> NoBlock,
                                      before |-> block_state_map]
                     /\ UNCHANGED <<blockchain, block_state_map, inserted>>
    /\ UNCHANGED <<mempool, mutex, poisoned, miner, miner_control_chan,
                   finished_block_chan, miner_worker, generator,
                   generator_control_chan, finished_tx_chan, generator_worker,
                   api, address_to_use, broadcast, published, emitted>>

StateEngineAccept == EngineAccept(EngineTxs, MaxOffered)

NextEngine == StateEngineAccept

SpecEngine == InitChain /\ [][NextEngine]_vars

\* what the transactions data[i..] send from, and pay to, an account
RECURSIVE SentBy(_, _, _)
SentBy(a, data, i) ==
    IF i > Len(data) THEN 0
    ELSE (IF data[i].transaction.sender = a
          THEN data[i].transaction.value ELSE 0) + SentBy(a, data, i + 1)

RECURSIVE PaidTo(_, _, _)
PaidTo(a, data, i) ==
    IF i > Len(data) THEN 0
    ELSE (IF data[i].transaction.receiver = a
          THEN data[i].transaction.value ELSE 0) + PaidTo(a, data, i + 1)

SendersOf(data) == {data[i].transaction.sender : i \in 1..Len(data)}
ReceiversOf(data) == {data[i].transaction.receiver : i \in 1..Len(data)}

\* C22: the snapshot recorded for an accepted block is the parent's
\* snapshot with each sender's nonce raised by its number of transactions
\* and each balance changed by what the block pays and sends, absent
\* accounts read as (0, 0); other accounts and the parent's snapshot are
\* untouched; {A -> B, 500, nonce 1} on genesis gives A (1, 999500) and
\* B (0, 500).
C22_SnapshotIsAppliedParent ==
    last_call.op = "accept" =>
       LET block == last_call.block
           data == block.content
           h == HashBlock(block)
           before == last_call.before[get_parent(block)]
           after == block_state_map[h]
       IN /\ DOMAIN after = DOMAIN before \cup SendersOf(data) \cup ReceiversOf(data)
          /\ \A a \in DOMAIN after :
                /\ after[a][1] = SenderEntry(before, a)[1]
                      + Cardinality({i \in 1..Len(data) :
                                       data[i].transaction.sender = a})
                /\ after[a][2] = SenderEntry(before, a)[2]
                      - SentBy(a, data, 1) + PaidTo(a, data, 1)
          /\ \A p \in DOMAIN last_call.before :
                block_state_map[p] = last_call.before[p]
          /\ (get_parent(block) = GenesisHash
                /\ data = <<SignedBy(0, 1, Account(1), 500)>>) =>
                after = (Account(0) :> <<1, 999500>>) @@ (Account(1) :> <<0, 500>>)

\* the worked example: one transfer of 500 from the funded account, in a
\* block on genesis
C22_Witness ==
    /\ last_call.op = "accept"
    /\ get_parent(last_call.block) = GenesisHash
    /\ last_call.block.content = <<SignedBy(0, 1, Account(1), 500)>>
    /\ block_state_map[HashBlock(last_call.block)][Account(1)] = <<0, 500>>

-----------------------------------------------------------------------------
(* Start-up with each of the three demo key pairs (main.rs 50-125) *)

\* p2p_addr.port() % 10 for the ports of a three-node deployment
KeyPorts == 0..2

InitKeys == InitNode(KeyPorts)

SpecKeys == InitKeys /\ [][NextLoops]_vars

\* C23: the genesis snapshot holds exactly one account, the address of
\* demo key 0 with nonce 0 and balance 1,000,000, whichever key pair the
\* node adopts.
C23_GenesisSnapshot ==
    /\ GenesisHash \in DOMAIN block_state_map
    /\ DOMAIN block_state_map[GenesisHash] = {Account(0)}
    /\ block_state_map[GenesisHash][Account(0)] = <<0, 1000000>>

\* a node that adopted key pair 2 reads the genesis snapshot
C23_Witness ==
    /\ address_to_use = 2
    /\ ChosenKey = 2
    /\ generator.pc = "state"
    /\ generator.tip = GenesisHash
    /\ block_state_map[GenesisHash] = (Account(0) :> <<0, 1000000>>)

-----------------------------------------------------------------------------
(* The generator on tips whose snapshots the state engine recorded *)

\* transfers of small values from the funded account to the other two
FundingTxs ==
    {SignedBy(0, n, Account(r), v) : n \in 1..2, r \in 1..2, v \in 1..2}

\* one block of such transfers is accepted while the generator runs
StateEngineFund == EngineAccept(FundingTxs, 1)

NextGenerator ==
    \/ StateEngineFund
    \/ ApiGeneratorStart
    \/ GeneratorControl
    \/ GeneratorReadTip
    \/ GeneratorDraft
    \/ GeneratorWorkerRecv
    \/ GeneratorWorkerInsert
    \/ GeneratorWorkerBroadcast

SpecGenerator == InitKeys /\ [][NextGenerator]_vars

\* the sender's entry in the snapshot of the tip the generator read
TipEntry == SenderEntry(block_state_map[generator.tip], Account(ChosenKey))

\* C24: every emitted transaction is sent from the node's own address,
\* carries the tip snapshot's nonce plus one, and a value v with
\* 1 <= v < balance / 2; with balance 0 nothing is emitted.
C24_EmittedFromTipSnapshot ==
    [][/\ emitted' # emitted =>
             LET tx == emitted'[Len(emitted')].transaction
             IN /\ generator.pc = "state"
                /\ emitted' = Append(emitted, emitted'[Len(emitted')])
                /\ tx.sender = Account(ChosenKey)
                /\ tx.account_nonce = TipEntry[1] + 1
                /\ 1 <= tx.value
                /\ tx.value < TipEntry[2] \div 2
       /\ (generator.pc = "state" /\ generator' # generator
             /\ generator.tip \in DOMAIN block_state_map
             /\ TipEntry[2] = 0) => emitted' = emitted]_vars

\* a node that adopted key pair 1 emitted a transaction from the balance
\* a block paid it, with the nonce that follows its snapshot entry
C24_Witness ==
    /\ emitted # <<>>
    /\ address_to_use = 1
    /\ emitted[1].transaction.sender = Account(1)
    /\ emitted[1].transaction.account_nonce = 1
    /\ Tip(blockchain) # GenesisHash

\* C27: while it runs, the generator loop never aborts, whatever the tip
\* and the sender's balance, the balances 1, 2 and 3 included.
C27_GeneratorNeverAborts == generator.pc # "panicked"

-----------------------------------------------------------------------------
(* The HTTP handlers' responses *)

\* C25: every request to a known endpoint is answered with JSON and its
\* handler never aborts; /blockchain/state answers for every block index,
\* one at or past the chain's length and one whose block has no snapshot
\* included.
C25_HandlerNeverAborts == api.panic = "none"

-----------------------------------------------------------------------------
(* "/tx-generator/start" on every u64 theta (api/mod.rs 116-139) *)

\* a u64 is written as four 16-bit limbs, least significant first
LimbBase == 65536

\* the factor of the handler's product 5000 * theta
ThetaFactor == 5000

\* thetas around the largest one whose product fits 64 bits,
\* 3689348814741910 = <<8598, 30094, 7025, 13>>, and at both ends of u64
ThetaInputs ==
    {<<l0, l1, l2, l3>> : l0 \in {0, 1, 8598, 8599, LimbBase - 1},
                          l1 \in {0, 30094, LimbBase - 1},
                          l2 \in {0, 7025, LimbBase - 1},
                          l3 \in {0, 13, 14, LimbBase - 1}}

\* the limbs of ThetaFactor * theta from limb i on, with the carry into
\* limb i; the carry out of the last limb is the fifth element
RECURSIVE MulLimbs(_, _, _)
MulLimbs(theta, i, carry) ==
    IF i > Len(theta) THEN <<carry>>
    ELSE LET p == ThetaFactor * theta[i] + carry
         IN <<p % LimbBase>> \o MulLimbs(theta, i + 1, p \div LimbBase)

\* the product in the integers, five limbs
MathProduct(theta) == MulLimbs(theta, 1, 0)

\* 5000*theta on u64: the product when it fits; otherwise the panic of a
\* build with overflow checks, or the product modulo 2^64 of a build
\* without them
StartDelay(theta) ==
    LET product == MathProduct(theta)
    IN IF product[5] = 0
       THEN {Returns(SubSeq(product, 1, 4))}
       ELSE {[outcome |-> "panics", value |-> <<>>],
             Returns(SubSeq(product, 1, 4))}

\* the handler: tx_generator.start(5000*theta); respond "ok"
ThetaStartCall ==
    /\ last_call = NoCall
    /\ \E theta \in ThetaInputs : \E delay \in StartDelay(theta) :
          /\ last_call' = [op |-> "tx_generator_start", n |-> 1,
                           theta |-> theta, delay |-> delay]
          /\ generator_control_chan' =
                IF delay.outcome = "returns"
                THEN Append(generator_control_chan, Start(delay.value))
                ELSE generator_control_chan
    /\ UNCHANGED <<blockchain, block_state_map, mempool, mutex, poisoned,
                   miner, miner_control_chan, finished_block_chan,
                   miner_worker, generator, finished_tx_chan,
                   generator_worker, api, address_to_use, broadcast,
                   published, emitted, inserted>>

NextTheta == ThetaStartCall

SpecTheta == InitChain /\ [][NextTheta]_vars

\* C26: for every u64 theta the handler sends Start(d) with d the
\* product 5000 * theta in the integers, without wrapping and without
\* aborting.
C26_DelayIsProduct ==
    last_call.op = "tx_generator_start" =>
       /\ last_call.delay.outcome = "returns"
       /\ last_call.delay.value \o <<0>> = MathProduct(last_call.theta)
       /\ generator_control_chan = <<Start(last_call.delay.value)>>

-----------------------------------------------------------------------------
(* The generator emitting on while the miner empties the mempool *)

\* transactions emitted in a run where the receivers come round again
MaxRepeat == 3

GeneratorDraftRepeat == GeneratorDraftUpTo(MaxRepeat)

NextRepeat ==
    \/ ApiMinerStart
    \/ ApiGeneratorStart
    \/ MinerControl
    \/ MinerReadTip
    \/ MinerLockMempool
    \/ MinerAssemble
    \/ MinerRemove
    \/ MinerSend
    \/ MinerEndIteration
    \/ GeneratorControl
    \/ GeneratorReadTip
    \/ GeneratorDraftRepeat
    \/ GeneratorWorkerRecv
    \/ GeneratorWorkerInsert
    \/ GeneratorWorkerBroadcast

SpecRepeat == InitChain /\ [][NextRepeat]_vars

\* C28: when the generator worker broadcasts NewTransactionHashes([h]) it
\* holds the mempool mutex under which it passed the transaction to
\* Mempool.insert, and h is a key of transaction_map at that moment.
C28_BroadcastIsInMempool ==
    generator_worker.pc = "broadcast" =>
       /\ mutex.mempool = "generator_worker"
       /\ HashTx(generator_worker.tx) \in mempool.transaction_set
       /\ HashTx(generator_worker.tx) \in DOMAIN mempool.transaction_map

-----------------------------------------------------------------------------
(* The miner worker's handling of published blocks *)

\* the block the worker has received and not yet announced
WorkerTaken ==
    IF miner_worker.pc \in {"lock", "broadcast"}
    THEN <<miner_worker.block>> ELSE <<>>

\* C29: the worker takes the published blocks in publication order,
\* inserts each into the blockchain before it broadcasts the block's
\* NewBlockHashes, and inserts and announces each exactly once.
C29_PublishedInsertedAnnounced ==
    /\ [](LET n == Len(broadcast.blocks)
          IN /\ miner_worker.pc # "panicked"
             /\ published =
                   SubSeq(published, 1, n) \o WorkerTaken \o finished_block_chan
             /\ \A i \in 1..n :
                   /\ broadcast.blocks[i] =
                         NewBlockHashes(<<HashBlock(published[i])>>)
                   /\ HashBlock(published[i]) \in DOMAIN blockchain.block_map
                   /\ blockchain.block_map[HashBlock(published[i])].block =
                         published[i]
             /\ miner_worker.pc = "broadcast" =>
                   HashBlock(miner_worker.block) \in DOMAIN blockchain.block_map)
    /\ [][/\ blockchain' # blockchain =>
                /\ miner_worker.pc = "lock"
                /\ miner_worker'.pc = "broadcast"
                /\ blockchain' = Insert(blockchain, miner_worker.block)
          /\ broadcast.blocks' # broadcast.blocks =>
                /\ miner_worker.pc = "broadcast"
                /\ miner_worker'.pc = "recv"
                /\ broadcast.blocks' =
                      Append(broadcast.blocks,
                             NewBlockHashes(<<HashBlock(miner_worker.block)>>))
          /\ (miner_worker.pc = "lock" /\ miner_worker'.pc = "broadcast") =>
                blockchain' = Insert(blockchain, miner_worker.block)]_vars

\* two different published blocks have both been inserted and announced,
\* in the order of their publication
C29_Witness ==
    /\ Len(published) = 2
    /\ published[1] # published[2]
    /\ Len(broadcast.blocks) = 2
    /\ broadcast.blocks[2] = NewBlockHashes(<<HashBlock(published[2])>>)
    /\ HashBlock(published[2]) \in DOMAIN blockchain.block_map
    /\ miner_worker.pc = "recv"

-----------------------------------------------------------------------------
(* The miner sleeping between iterations (miner/mod.rs 192-238) *)

\* the largest lambda of a request that makes the miner sleep
MaxSleep == 1

\* "/miner/start" with a lambda that may be non-zero
ApiMinerStartSlow == ApiMinerStartWith(0..MaxSleep)

NextSleep ==
    \/ ApiMinerStartSlow
    \/ ApiGeneratorStart
    \/ MinerControl
    \/ MinerReadTip
    \/ MinerLockMempool
    \/ MinerAssemble
    \/ MinerRemove
    \/ MinerSend
    \/ MinerEndIteration
    \/ GeneratorControl
    \/ GeneratorReadTip
    \/ GeneratorDraft
    \/ GeneratorWorkerRecv
    \/ GeneratorWorkerInsert
    \/ GeneratorWorkerBroadcast

SpecSleep == InitChain /\ [][NextSleep]_vars

\* C30: the miner has released the mempool mutex before it sleeps lambda
\* microseconds, so no inserting thread waits for the mutex while the
\* miner sleeps.
C30_ReleasedBeforeSleep ==
    (miner.pc = "sleep" /\ miner.operating_state.lambda # 0) =>
       /\ mutex.mempool # "miner"
       /\ ~(generator_worker.pc = "lock" /\ mutex.mempool # "free")

-----------------------------------------------------------------------------
(* Transactions across the blocks the miner publishes *)

\* the hashes of the transactions of a block
ContentHashes(block) ==
    {HashTx(block.content[j]) : j \in 1..Len(block.content)}

\* C31: no signed transaction is in more than one published block (nor
\* twice in one); a published block's transactions were removed from
\* transaction_map under the lock hold that selected them and are never
\* selected again.
C31_PublishedOnce ==
    /\ [](/\ \A i, j \in 1..Len(published) :
                i # j => ContentHashes(published[i])
                            \cap ContentHashes(published[j]) = {}
          /\ \A i \in 1..Len(published) :
                /\ Cardinality(ContentHashes(published[i])) =
                      Len(published[i].content)
                /\ ContentHashes(published[i])
                      \cap DOMAIN mempool.transaction_map = {}
          /\ miner.pc \in {"remove", "send"} =>
                \A i \in 1..Len(published) :
                   ContentHashes(published[i])
                      \cap ContentHashes(miner.block) = {})
    /\ [][published' # published =>
             /\ mutex.mempool = "miner"
             /\ mutex'.mempool = "miner"
             /\ ContentHashes(miner.block)
                   \cap DOMAIN mempool.transaction_map = {}
             /\ ContentHashes(miner.block) \subseteq DOMAIN miner.snapshot]_vars

\* a transaction went out in the first published block, was emitted and
\* handed to the mempool again, and a second block has been published
C31_Witness ==
    /\ Len(published) = 2
    /\ Len(emitted) = 3
    /\ emitted[3] = emitted[1]
    /\ HashTx(emitted[1]) \in ContentHashes(published[1])
    /\ Len(broadcast.transactions) = 3
    /\ Len(published[2].content) = 1

-----------------------------------------------------------------------------
(* Blockchain::insert on unknown parents and on stored blocks *)

\* C32: insert called with a block whose parent is not in block_map
\* aborts before any mutation: block_map, tip and height are as before.
C32_UnknownParentAborts ==
    /\ last_call.op = "panic" =>
          /\ get_parent(last_call.block) \notin DOMAIN last_call.pre.block_map
          /\ blockchain = last_call.pre
    /\ last_call.op = "insert" =>
          get_parent(last_call.block) \in DOMAIN last_call.pre.block_map

\* the call aborted on a store that already held a fork
C32_Witness ==
    /\ last_call.op = "panic"
    /\ get_parent(last_call.block) = UnknownParent
    /\ Cardinality(DOMAIN blockchain.block_map) >= 3
    /\ blockchain.height >= 1


\* C33: insert is idempotent: inserting a block that is already in
\* block_map (the tip, a block delivered twice) leaves tip, height, the
\* stored blocks and every stored height unchanged.
C33_InsertIdempotent ==
    /\ \A h \in DOMAIN blockchain.block_map :
          LET after == InsertOutcome(blockchain, blockchain.block_map[h].block).bc
          IN /\ after.tip = blockchain.tip
             /\ after.height = blockchain.height
             /\ DOMAIN after.block_map = DOMAIN blockchain.block_map
             /\ \A g \in DOMAIN after.block_map :
                   after.block_map[g] = blockchain.block_map[g]
    /\ (last_call.op = "insert"
          /\ HashBlock(last_call.block) \in DOMAIN last_call.pre.block_map) =>
          blockchain = last_call.pre

\* a stored block that is not the tip was inserted a second time into a
\* store with a fork
C33_Witness ==
    /\ last_call.op = "insert"
    /\ HashBlock(last_call.block) \in DOMAIN last_call.pre.block_map
    /\ HashBlock(last_call.block) # blockchain.tip
    /\ Cardinality(DOMAIN blockchain.block_map) >= 4
    /\ \E h \in DOMAIN blockchain.block_map :
          h # blockchain.tip /\ blockchain.block_map[h].height = blockchain.height

-----------------------------------------------------------------------------
(* The mempool's two collections under insert and remove *)

\* C34: transaction_set never loses an element, every key of
\* transaction_map is in transaction_set, and every key of
\* transaction_map is the hash of the transaction stored under it.
C34_MempoolCollections ==
    /\ [](/\ DOMAIN mempool.transaction_map \subseteq mempool.transaction_set
          /\ \A h \in DOMAIN mempool.transaction_map :
                h = HashTx(mempool.transaction_map[h]))
    /\ [][mempool.transaction_set \subseteq mempool'.transaction_set]_vars

\* after inserts and a remove the set holds a hash the map has lost,
\* next to one the map still holds
C34_Witness ==
    /\ last_call.op = "mp_remove"
    /\ last_call.hash \in mempool.transaction_set
    /\ last_call.hash \in DOMAIN last_call.pre.transaction_map
    /\ last_call.hash \notin DOMAIN mempool.transaction_map
    /\ DOMAIN mempool.transaction_map # {}

-----------------------------------------------------------------------------
(* The form of published blocks *)

\* C35: every published block's merkle_root is the root of the Merkle
\* tree over its content, its difficulty is DIFFICULTY, and its parent is
\* the tip the miner read at the start of the iteration that built it.
C35_PublishedWellFormed ==
    /\ [](\A i \in 1..Len(published) :
             /\ LET tree == MerkleTreeNew(published[i].content)
                IN published[i].header.merkle_root =
                      IF tree.node_amount = 0 THEN ZeroHash
                      ELSE tree.nodes[tree.node_amount]
             /\ published[i].header.difficulty = 1
             /\ get_parent(published[i]) \in DOMAIN blockchain.block_map)
    /\ [][/\ (miner.pc = "tip" /\ miner'.pc = "lock_mempool") =>
                miner'.parent_ = blockchain.tip
          /\ (miner.pc \in {"lock_mempool", "select", "remove", "send"}
                /\ miner'.pc \in {"select", "remove", "send", "sleep"}) =>
                miner'.parent_ = miner.parent_
          /\ published' # published =>
                /\ miner.pc = "send"
                /\ get_parent(published'[Len(published')]) = miner.parent_]_vars

\* a published block with a transaction was built on a mined block, which
\* was the tip its iteration read
C35_Witness ==
    /\ Len(published) = 2
    /\ get_parent(published[2]) = HashBlock(published[1])
    /\ Len(published[2].content) >= 1
    /\ published[2].header.merkle_root # ZeroHash

-----------------------------------------------------------------------------
(* The miner's operating state under Start, Update and Exit *)

NextSignals ==
    \/ ApiMinerStartSlow
    \/ HandleExit
    \/ HandleUpdate
    \/ MinerControl
    \/ MinerReadTip
    \/ MinerLockMempool
    \/ MinerAssemble
    \/ MinerRemove
    \/ MinerSend
    \/ MinerEndIteration

SpecSignals == InitChain /\ [][NextSignals]_vars

\* C36: a running miner takes at most one control signal per iteration,
\* the oldest one; Start(lambda') makes it Run(lambda'), Exit makes it
\* ShutDown; nothing moves it from Run back to Paused or out of ShutDown.
C36_RunningSignals ==
    [][/\ Len(miner_control_chan') < Len(miner_control_chan) =>
             /\ miner.pc = "control"
             /\ miner_control_chan' = Tail(miner_control_chan)
             /\ miner.operating_state.kind = "Run" => miner'.pc # "control"
             /\ (miner.operating_state.kind = "Run"
                   /\ Head(miner_control_chan).kind = "Start") =>
                   miner'.operating_state =
                      Run(Head(miner_control_chan).lambda)
             /\ (miner.operating_state.kind = "Run"
                   /\ Head(miner_control_chan).kind = "Exit") =>
                   miner'.operating_state = ShutDown
       /\ miner'.operating_state # miner.operating_state =>
             Len(miner_control_chan') < Len(miner_control_chan)
       /\ miner.operating_state.kind = "Run" =>
             miner'.operating_state.kind # "Paused"
       /\ miner.operating_state.kind = "ShutDown" =>
             miner'.operating_state = ShutDown]_vars

\* a miner that was started twice and published a block has shut down,
\* with a later signal left in the channel
C36_Witness ==
    /\ miner.operating_state = ShutDown
    /\ miner.pc = "done"
    /\ Len(published) >= 1
    /\ api.starts = 2
    /\ miner_control_chan # <<>>

-----------------------------------------------------------------------------
(* Totality, soundness and binding of the Merkle functions *)

\* C37: verify terminates and returns true or false, without aborting,
\* for every root, datum, proof of any length, index and leaf count, the
\* leaf count 0 included.
C37_VerifyTotal ==
    last_call.op \in {"merkle", "verify"} =>
       last_call.verified.outcome = "returns"


\* leaves in the lists whose roots are compared pairwise
MaxPairLeaves == 4

\* the lists over two items of up to MaxPairLeaves leaves
PairLists ==
    UNION {[1..n -> {LeafItem(1), LeafItem(2)}] : n \in 0..MaxPairLeaves}

\* datum hashes offered against a proof: the zero hash, leaf hashes and
\* the hash of a pair
DatumPool ==
    {ZeroHash, HashTx(LeafItem(1)), HashTx(LeafItem(2)), HashTx(LeafItem(3)),
     HashPair(HashTx(LeafItem(1)), HashTx(LeafItem(1)))}

\* verify(tree.root(), d, tree.proof(i), i, |L|) on a fresh tree, for any d
SoundCall ==
    /\ last_call = NoCall
    /\ \E data \in LeafLists \ {<<>>}, datum \in DatumPool :
          \E index \in 0..(Len(data) - 1) :
             LET tree == MerkleTreeNew(data)
                 proof_ == proof(tree, index)
             IN last_call' =
                   [op |-> "sound", n |-> Len(data), data |-> data,
                    index |-> index, datum |-> datum,
                    verified |-> verify(MerkleRoot(data), datum, proof_,
                                        index, Len(data))]
    /\ UNCHANGED <<blockchain, block_state_map, mempool, mutex, poisoned,
                   miner, miner_control_chan, finished_block_chan,
                   miner_worker, generator, generator_control_chan,
                   finished_tx_chan, generator_worker, api, address_to_use,
                   broadcast, published, emitted, inserted>>

\* MerkleTree::new(L1).root() and MerkleTree::new(L2).root() of two lists
RootPairCall ==
    /\ last_call = NoCall
    /\ \E data1 \in PairLists, data2 \in PairLists :
          /\ data1 # data2
          /\ last_call' = [op |-> "roots", n |-> Len(data1),
                           data1 |-> data1, data2 |-> data2,
                           root1 |-> MerkleRoot(data1),
                           root2 |-> MerkleRoot(data2)]
    /\ UNCHANGED <<blockchain, block_state_map, mempool, mutex, poisoned,
                   miner, miner_control_chan, finished_block_chan,
                   miner_worker, generator, generator_control_chan,
                   finished_tx_chan, generator_worker, api, address_to_use,
                   broadcast, published, emitted, inserted>>

NextCommit == SoundCall \/ RootPairCall

SpecCommit == InitChain /\ [][NextCommit]_vars

\* C38: for a list of one or more leaves and an index in range, if verify
\* accepts a datum hash against the tree's root and its proof for that
\* index, the datum is the hash of the leaf at the index.
C38_ProofSound ==
    (last_call.op = "sound" /\ last_call.verified = Returns(TRUE)) =>
       last_call.datum = HashTx(last_call.data[last_call.index + 1])

\* the last of five leaves is accepted against its own proof
C38_Witness ==
    /\ last_call.op = "sound"
    /\ last_call.n = 5
    /\ last_call.index = 4
    /\ last_call.verified = Returns(TRUE)
    /\ last_call.datum = HashTx(LeafItem(2))

\* C39: two leaf lists that differ in length or in an element have
\* different Merkle roots.
C39_RootBinds ==
    last_call.op = "roots" => last_call.root1 # last_call.root2

-----------------------------------------------------------------------------
(* "/blockchain/longest-chain-tx" beside the miner worker's inserts *)

\* line 150: read the longest chain under the blockchain mutex
ApiChainTxChain ==
    /\ api.pc = "idle"
    /\ api.reads < MaxRequests
    /\ mutex.blockchain = "free"
    /\ api' = IF LockPanics("blockchain")
              THEN [api EXCEPT !.panic = "poisoned", !.reads = api.reads + 1]
              ELSE [api EXCEPT !.pc = "tx_map",
                               !.longest_chain =
                                   all_blocks_in_longest_chain(blockchain)]
    /\ UNCHANGED <<blockchain, block_state_map, mempool, mutex, poisoned,
                   miner, miner_control_chan, finished_block_chan,
                   miner_worker, generator, generator_control_chan,
                   finished_tx_chan, generator_worker, address_to_use,
                   broadcast, published, emitted, inserted, last_call>>

\* lines 151-166: clone block_map under a second lock, look every chain
\* hash up in the clone, collect the transaction hashes, respond
ApiChainTxMap ==
    /\ api.pc = "tx_map"
    /\ mutex.blockchain = "free"
    /\ LET block_map == blockchain.block_map
           blocks == api.longest_chain
           done(panic) ==
               [pc |-> "idle", longest_chain |-> <<>>, panic |-> panic,
                starts |-> api.starts, reads |-> api.reads + 1]
       IN IF LockPanics("blockchain")
          THEN /\ api' = done("poisoned")
               /\ UNCHANGED last_call
          ELSE IF \E i \in 1..Len(blocks) : blocks[i] \notin DOMAIN block_map
          THEN /\ api' = done("no_block")
               /\ UNCHANGED last_call
          ELSE /\ api' = done(api.panic)
               /\ last_call' =
                     [op |-> "longest_chain_tx", n |-> api.reads + 1,
                      blocks |-> blocks, block_map |-> block_map,
                      response |->
                         [i \in 1..Len(blocks) |->
                            [j \in 1..Len(block_map[blocks[i]].block.content)
                               |-> HashTx(block_map[blocks[i]].block.content[j])]]]
    /\ UNCHANGED <<blockchain, block_state_map, mempool, mutex, poisoned,
                   miner, miner_control_chan, finished_block_chan,
                   miner_worker, generator, generator_control_chan,
                   finished_tx_chan, generator_worker, address_to_use,
                   broadcast, published, emitted, inserted>>

NextChainTx ==
    \/ ApiMinerStart
    \/ ApiGeneratorStart
    \/ MinerControl
    \/ MinerReadTip
    \/ MinerLockMempool
    \/ MinerAssemble
    \/ MinerRemove
    \/ MinerSend
    \/ MinerEndIteration
    \/ MinerWorkerRecv
    \/ MinerWorkerInsert
    \/ MinerWorkerBroadcast
    \/ GeneratorControl
    \/ GeneratorReadTip
    \/ GeneratorDraft
    \/ GeneratorWorkerRecv
    \/ GeneratorWorkerInsert
    \/ GeneratorWorkerBroadcast
    \/ ApiChainTxChain
    \/ ApiChainTxMap

SpecChainTx == InitChain /\ [][NextChainTx]_vars

\* C40: the handler reads the chain and the block map under two separate
\* holds of the blockchain mutex; whatever is inserted in between, every
\* hash of the chain is in the map read afterwards, block_map never loses
\* an entry, and the response has one transaction-hash list per chain
\* block, from genesis to tip.
C40_ChainTxResponse ==
    /\ [](/\ api.panic = "none"
          /\ api.pc = "tx_map" =>
                /\ mutex.blockchain # "api"
                /\ \A i \in 1..Len(api.longest_chain) :
                      api.longest_chain[i] \in DOMAIN blockchain.block_map
          /\ last_call.op = "longest_chain_tx" =>
                LET blocks == last_call.blocks
                IN /\ Len(last_call.response) = Len(blocks)
                   /\ blocks[1] = GenesisHash
                   /\ \A i \in 1..Len(blocks) :
                         /\ blocks[i] \in DOMAIN last_call.block_map
                         /\ i > 1 =>
                               get_parent(last_call.block_map[blocks[i]].block)
                                  = blocks[i - 1]
                         /\ LET data ==
                                   last_call.block_map[blocks[i]].block.content
                            IN last_call.response[i] =
                                  [j \in 1..Len(data) |-> HashTx(data[j])])
    /\ [][DOMAIN blockchain.block_map
             \subseteq DOMAIN blockchain'.block_map]_vars

\* a block was inserted between the handler's two reads: the response
\* lists the two blocks of the chain it read, the second with a
\* transaction, and the map it read holds a child of the second
C40_Witness ==
    /\ last_call.op = "longest_chain_tx"
    /\ Len(last_call.blocks) = 2
    /\ \E h \in DOMAIN last_call.block_map :
          get_parent(last_call.block_map[h].block) = last_call.blocks[2]
    /\ Len(last_call.response[2]) >= 1
    /\ last_call.response[1] = <<>>

====
